---- MODULE Spec2Model ----
(***************************************************************************)
(* Concurrent HTTP server of "Lab 2": token-bucket RateLimiter, Naive and  *)
(* Locked request counters, the inflight tracker and the request log of    *)
(* RequestHandler, and the do_GET pipeline that ties them together.        *)
(*                                                                         *)
(* Threads are the worker threads of ThreadingHTTPServer (or the threads   *)
(* of a test's ThreadPoolExecutor).  Every `with lock:` block is an        *)
(* acquire step followed by a body-and-release step; the unsynchronised    *)
(* read / sleep / write of NaiveCounter.inc is two steps.  A thread with   *)
(* req[t] = NoReq calls a component directly (a test's worker); a thread   *)
(* with a request runs do_GET, and the components return into it.          *)
(***************************************************************************)
EXTENDS Integers, Sequences, FiniteSets, TLC

\* ------------------------------------------------------------- bounds
NumThreads == 2
\* calls a harness makes on a component
MaxCalls == 4
\* requests a server accepts
MaxRequests == 2
\* time.monotonic() stops advancing here
MaxClock == 2
\* token units per token (the model's resolution of the float `tokens`)
Resolution == 2
\* capacity of the log ring buffer: deque(maxlen=1000), scaled down
LogCapacity == 3

Threads == 1..NumThreads
NoThread == 0
MainThread == 1

VARIABLES
  pc,            \* pc[t]: position of thread t in the code
  ncalls,        \* history: calls (harness) or requests (server) started so far
  \* --- counter
  key,           \* key[t]: the `key` argument of the counter call in progress
  cur,           \* cur[t]: the local `current` of NaiveCounter.inc / the value read under the lock
  snap,          \* snap[t]: the dict last returned to t by snapshot()
  counter_mode,  \* "naive" | "locked": which counter class was built ("none" before make_server)
  counts,        \* the counter's _counts dict: a function whose domain is the keys present
  counter_lock,  \* owner of LockedCounter._lock, NoThread when free
  incDone,       \* history: incDone[k] = number of inc(k) calls that have returned since the last reset
  resetSeen,     \* history: some reset() has run
  stale,         \* history: stale[k] = some inc(k) wrote after another write landed between its read and its write
  \* --- rate limiter
  limiter,       \* the RateLimiter: [rps, burst] (its _rps and _burst), NoLimiter when none exists
  buckets,       \* RateLimiter._buckets: ip -> [tokens, last_refill], domain = the ips seen
  limiter_lock,  \* owner of RateLimiter._lock, NoThread when free
  clock,         \* time.monotonic(), in ticks
  ip,            \* ip[t]: the `ip` argument of the allow call in progress
  now,           \* now[t]: the local `now` of allow, read before the lock is taken
  ret,           \* ret[t]: the value the last allow call of t returned
  admitted,      \* history: admitted[k] = number of allow(k) calls that returned True
  refilled,      \* history: refilled[k] = tokens added to the bucket of k by refills
  created,       \* history: created[k] = the `now` of the call that created the bucket of k
  skewSeen,      \* history: some allow ran with a `now` older than the bucket's last_refill
  \* --- inflight tracker
  inflight,      \* RequestHandler.inflight
  inflight_lock, \* owner of RequestHandler.inflight_lock
  infl,          \* infl[t]: the value the last _inflight_peek of t returned
  clamped,       \* history: some _inflight_dec found the value 0
  \* --- request log
  logs,          \* RequestHandler.logs: the deque, oldest entry first
  log_seq,       \* RequestHandler.log_seq
  logs_lock,     \* owner of RequestHandler.logs_lock
  maxlen,        \* the maxlen of the deque
  written,       \* history: every entry appended to the deque, in append order
  asked,         \* the query of the /api/logs request being answered: [since, last]
  items,         \* the list that request is answered with
  \* --- server
  startup,       \* "init" | "serving" | "config_error": the outcome of make_server
  cfg,           \* Config: [rps, burst, delay, counter_mode, server_type, trust_xff]
  clients,       \* the targets the clients of this run ask for
  req,           \* req[t]: the request thread t is handling, NoReq when it handles none
  loc,           \* loc[t]: the locals of do_GET: [status, start, dur, wake, stage, exc] and, for
                 \* /api/fire, its fetches: [unsent, left, oks]; history: readable, outcome
  trace,         \* history: trace[t] = the steps do_GET has completed for the request of t, in order
  \* --- test_token_bucket_allows_rate
  test_pc,       \* "first" | "sixth" | "sleep" | "second" | "done"
  test_calling,  \* the test is inside an allow call whose result it has not yet summed
  test_i,        \* calls the test has completed in its current phase
  allowed1,      \* the test's first `allowed` (line 11)
  sixth,         \* the result of the call of line 14
  allowed2,      \* the test's second `allowed` (line 17)
  sleep_start,   \* the clock when time.sleep(1.05) began
  \* --- a client polling /api/logs
  page,          \* [path, counts, status, links]: a call of _serve_custom_index, its arguments
                 \* and the page it has answered with
  lat,           \* the requests of test_concurrent_requests: [server, clock, state, wake,
                 \* finished]: the kind of server, the logical time, each request's state
                 \* and the end of its sleep, and the time the last request finished
  handlers,      \* the Handler classes built by make_server, one per server: [pc, own,
                 \* requests]: the position of the server's worker in _log, the class's
                 \* own log_seq attribute (<<>> while it has none) and the requests begun
  overlap,       \* history of the counter's callers: [inc, any]: two inc calls have
                 \* overlapped; two calls have overlapped
  objs,          \* the dict objects of a counter and of its callers: [heap, ref, has,
                 \* expect, shadow, fresh, taken, takenFresh, ops]
  poll           \* [last_id, base, got, overrun]: the largest id received, the id incremental
                 \* polling began at, the entries received since, and whether a whole
                 \* buffer of entries was appended between two polls

counterVars == <<key, cur, snap, counter_mode, counts, counter_lock, incDone, resetSeen, stale>>
limiterVars == <<limiter, buckets, limiter_lock, clock, ip, now, ret, admitted, refilled, created, skewSeen>>
inflightVars == <<inflight, inflight_lock, infl, clamped>>
logVars == <<logs, log_seq, logs_lock, maxlen, written, asked, items>>
serverVars == <<startup, cfg, clients, req, loc, trace>>
testVars == <<test_pc, test_calling, test_i, allowed1, sixth, allowed2, sleep_start, page, poll, lat, objs, overlap, handlers>>
vars == <<pc, ncalls, counterVars, limiterVars, inflightVars, logVars, serverVars, testVars>>

\* ------------------------------------------------------------- dict helpers
EmptyDict == [k \in {} |-> 0]

\* dict.get(k, 0)
Get(d, k) == IF k \in DOMAIN d THEN d[k] ELSE 0

\* d[k] = v
Put(d, k, v) == [x \in (DOMAIN d) \cup {k} |-> IF x = k THEN v ELSE d[x]]

\* dict(d): a copy; the model's values are immutable, so the copy is the value
DictCopy(d) == [x \in DOMAIN d |-> d[x]]

Min(a, b) == IF a <= b THEN a ELSE b

SetPc(t, p) == pc' = [pc EXCEPT ![t] = p]

\* ------------------------------------------------------------- requests
\* A request target is the raw path of the request line, split at the "?":
\* [path, query], query = NoQuery when the target has no "?".
NoQuery == "-"
Target(p, q) == [path |-> p, query |-> q]

Targets ==
  { Target("/", NoQuery), Target("/", "x=1"), Target("/a.txt", NoQuery),
    Target("/missing", NoQuery), Target("/__counts", NoQuery),
    Target("/api/ping", NoQuery), Target("/api/reset", NoQuery),
    Target("/api/counter", NoQuery), Target("/api/inflight", NoQuery),
    Target("/api/fire", "path=/a.txt&n=1"), Target("/api/nope", NoQuery) }

\* What the clients of one run ask for: files and listings, or the administrative
\* paths and a file that does not exist.
PipelineClients == {Target("/", NoQuery), Target("/", "x=1"), Target("/a.txt", NoQuery)}
ClientSets == {PipelineClients, Targets \ PipelineClients}

Ips == {"1.2.3.4", "127.0.0.1"}
NoIp == "-"

\* self.headers.get("X-Forwarded-For"): <<>> when the request has no such header (None),
\* else <<text>>. The text of a header is the sequence of its pieces: a piece is a
\* comma, a blank, or the text of an address.
NoXff == <<>>
Comma == ","
Blank == " "

\* The headers the clients of the server runs send, and those the key is resolved for.
XffHeaders == {NoXff}
XffPieces == {Comma, Blank, "1.2.3.4", "9.9.9.9"}
XffMaxLen == 3
XffTexts == UNION {[1..n -> XffPieces] : n \in 0..XffMaxLen}
KeyHeaders == {NoXff} \cup {<<x>> : x \in XffTexts}

\* The string a sequence of pieces spells.
RECURSIVE Join(_)
Join(s) == IF s = <<>> THEN "" ELSE s[1] \o Join(Tail(s))

\* str.split(","): the parts between the commas, at least one
RECURSIVE Split(_)
Split(s) ==
  IF \A i \in DOMAIN s : s[i] # Comma THEN <<s>>
  ELSE LET c == CHOOSE i \in DOMAIN s : s[i] = Comma /\ \A j \in 1..(i - 1) : s[j] # Comma
       IN <<SubSeq(s, 1, c - 1)>> \o Split(SubSeq(s, c + 1, Len(s)))

\* str.strip(): without the blanks at either end
RECURSIVE LStrip(_)
LStrip(s) == IF s # <<>> /\ s[1] = Blank THEN LStrip(Tail(s)) ELSE s
RECURSIVE RStrip(_)
RStrip(s) == IF s # <<>> /\ s[Len(s)] = Blank THEN RStrip(SubSeq(s, 1, Len(s) - 1)) ELSE s
Strip(s) == LStrip(RStrip(s))

\* do_GET, line 66: hdr_xff.split(",")[0].strip()
FirstHop_WholeHeader(x) == Join(Strip(x))
FirstHop_NoStrip(x) == Join(Split(x)[1])
FirstHop(x) == Join(Strip(Split(x)[1]))

\* do_GET, line 65: `hdr_xff` as a condition: neither None nor the empty string
Truthy(h) == h # NoXff /\ h[1] # <<>>

\* The peers that connect.
Peers == {"1.2.3.4"}

\* A request: parent is the thread whose /api/fire handler sent it, NoThread for the
\* request of a client.
\* history: n is the position of the request among the requests the server accepted.
Requests == [peer : Peers, xff : XffHeaders, target : Targets, parent : {NoThread}, n : {0}]
NoReq ==
  [peer |-> NoIp, xff |-> NoXff, target |-> Target("-", NoQuery), parent |-> NoThread, n |-> 0]

\* urlsplit(self.path).path
UrlPath_KeepsQuery(tg) == IF tg.query = NoQuery THEN tg.path ELSE tg.path \o "?" \o tg.query
UrlPath(tg) == tg.path

\* Paths that end with "/"; files the document root holds.
SlashPaths == {"/", "/sub/"}
DocRootFiles == {"/a.txt"}

\* self.path.endswith('/') or self.path == '/': the raw target ends with a slash
IsDirTarget(tg) == tg.query = NoQuery /\ tg.path \in SlashPaths

\* self.path == "/__counts"
IsCountsTarget(tg) == tg = Target("/__counts", NoQuery)

\* self.path.startswith("/api/")
ApiPaths ==
  {"/api/ping", "/api/reset", "/api/counter", "/api/inflight", "/api/fire", "/api/nope"}
IsApiTarget_PingOnly(tg) == tg.path = "/api/ping"
IsApiTarget(tg) == tg.path \in ApiPaths

\* do_GET, lines 64-68: the client key
ClientKey_TrustsAlways(r) == IF Truthy(r.xff) THEN FirstHop(r.xff[1]) ELSE r.peer
ClientKey(r) ==
  IF cfg.trust_xff /\ Truthy(r.xff) THEN FirstHop(r.xff[1]) ELSE r.peer

\* Keys a counter can hold.
CounterKeys == {"/foo", "/bar"}
Keys == CounterKeys \cup {UrlPath(tg) : tg \in Targets}

\* _last_status = None
NoStatus == 0
NoLoc ==
  [status |-> NoStatus, start |-> 0, dur |-> 0, wake |-> 0, stage |-> "none", exc |-> FALSE,
   unsent |-> 0, left |-> 0, oks |-> 0, readable |-> TRUE, outcome |-> "none"]

Handling(t) == req[t] # NoReq

\* _handle_api, lines 257-264: q.get("path", ["/"])[0] and int(q.get("n", ["10"])[0])
FirePath(q) == IF q = "path=/a.txt&n=1" THEN "/a.txt" ELSE "/"
FireN(q) == IF q = "path=/a.txt&n=1" THEN 1 ELSE 10

\* _handle_api, lines 264-270: the request a fetch of the /api/fire handler of thread p
\* sends to the server
FiredRequest(p) ==
  [peer |-> "127.0.0.1", xff |-> NoXff,
   target |-> Target(FirePath(req[p].target.query), NoQuery), parent |-> p, n |-> 0]

\* The requests that can arrive: those of the clients, and the fetches an /api/fire
\* handler has submitted and not yet sent.
Incoming ==
  {r \in Requests : r.target \in clients}
    \cup {FiredRequest(p) : p \in {q \in Threads : pc[q] = "fire_wait" /\ loc[q].unsent > 0}}

\* The locals once request r is on its way: a fetch of /api/fire is sent.
Issued(r) == IF r.parent = NoThread THEN loc ELSE [loc EXCEPT ![r.parent].unsent = @ - 1]

\* _handle_api, lines 265-275: the fetch that sent the request of thread t gets the
\* answer with status st (urlopen raises for anything but a 2xx: -1) and is counted
FetchReturned(l, t, st) ==
  IF req[t].parent = NoThread THEN l
  ELSE [l EXCEPT ![req[t].parent].left = @ - 1,
                 ![req[t].parent].oks = @ + (IF st = 200 THEN 1 ELSE 0)]

\* The steps of do_GET that the history of a request records.
Record(t, evs) ==
  trace' = IF Handling(t) THEN [trace EXCEPT ![t] = @ \o evs] ELSE trace

\* ------------------------------------------------------------- where the components return to
\* self.counter.inc(key) is called at line 110 of do_GET
AfterIncPc(t) == IF Handling(t) THEN "respond" ELSE "idle"

\* self.counter.snapshot() is called at line 72 (/__counts) and at line 114 (listing)
AfterSnapshotPc(t) ==
  IF ~Handling(t) THEN "idle" ELSE IF loc[t].stage = "admin" THEN "finish" ELSE "listing"

\* self.counter.reset() is called at line 188 (/api/reset)
AfterResetPc_DecrementsInflight(t) == IF Handling(t) THEN "infl_dec" ELSE "idle"
AfterResetPc(t) == IF Handling(t) THEN "finish" ELSE "idle"

\* do_GET, lines 92-101: the limiter's verdict; 429 and a log entry of duration 0, or
\* start = time.monotonic() and on to _inflight_inc
AfterAllowPc_IgnoresVerdict(t, ok) == IF ~Handling(t) THEN "idle" ELSE "infl_inc"
AfterAllowPc(t, ok) == IF ~Handling(t) THEN "idle" ELSE IF ok THEN "infl_inc" ELSE "peek"
AfterAllowLoc(t, ok) ==
  IF ~Handling(t) THEN loc[t]
  ELSE IF ok THEN [loc[t] EXCEPT !.start = clock, !.stage = "try"]
  ELSE [loc[t] EXCEPT !.status = 429, !.dur = 0, !.stage = "rejected"]

\* do_GET, lines 100-104: after _inflight_inc, _last_status = None and time.sleep(self.delay)
AfterAllowLocs(t, ok) ==
  LET l == [loc EXCEPT ![t] = AfterAllowLoc(t, ok)]
  IN IF Handling(t) /\ ~ok THEN FetchReturned(l, t, 429) ELSE l

\* allow has returned; when it refused, send_error(429) has answered (line 93)
AfterAllowTrace(ok) == IF ok THEN <<"allow">> ELSE <<"allow", "respond">>

AfterInflightIncPc_SkipsDelay(t) == IF Handling(t) THEN "respond" ELSE "idle"
AfterInflightIncPc(t) == IF Handling(t) THEN "sleeping" ELSE "idle"
AfterInflightIncLoc(t) ==
  IF Handling(t) THEN [loc[t] EXCEPT !.status = NoStatus, !.wake = clock + cfg.delay] ELSE loc[t]

\* _inflight_peek is called for the `inflight` argument of every _log call
AfterPeekPc(t) ==
  IF ~Handling(t) THEN "idle" ELSE IF loc[t].stage = "admin" THEN "finish" ELSE "log"

\* do_GET: after the _log of line 95 the handler returns; after the _log of the except
\* block (line 125) the exception is raised again and the finally block runs; after the
\* _log of the finally block (line 133) comes _inflight_dec
AfterLogPc_NoFinally(t) ==
  IF ~Handling(t) THEN "idle"
  ELSE IF loc[t].stage \in {"rejected", "except"} THEN "finish" ELSE "infl_dec"
AfterLogPc_SkipsDecOnError(t) ==
  IF ~Handling(t) THEN "idle"
  ELSE IF loc[t].stage = "rejected" THEN "finish"
  ELSE IF loc[t].stage = "except" THEN "peek"
  ELSE IF loc[t].exc THEN "finish" ELSE "infl_dec"
AfterLogPc(t) ==
  IF ~Handling(t) THEN "idle"
  ELSE IF loc[t].stage = "rejected" THEN "finish"
  ELSE IF loc[t].stage = "except" THEN "peek"
  ELSE "infl_dec"
AfterLogLoc(t) ==
  IF ~Handling(t) THEN NoLoc
  ELSE IF loc[t].stage = "except"
  THEN [loc[t] EXCEPT !.stage = "finally", !.dur = clock - loc[t].start]
  ELSE loc[t]

\* do_GET, line 134: _inflight_dec is the last statement
AfterInflightDecPc(t) == IF Handling(t) THEN "finish" ELSE "idle"

\* ------------------------------------------------------------- counters
notCounter == <<limiterVars, inflightVars, logVars, serverVars, testVars>>

\* `with self._lock:` of LockedCounter can be entered only when the lock is free.
CounterLockAvailable_NoLock == TRUE
CounterLockAvailable == counter_lock = NoThread

\* The value NaiveCounter.inc stores: the value read before the sleep, plus one.
NaiveNewValue_NoIncrement(t) == cur[t]
NaiveNewValue_Atomic(t) == Get(counts, key[t]) + 1
NaiveNewValue(t) == cur[t] + 1

\* self._counts.get(key, 0)
CountsGet_DefaultOne(k) == IF k \in DOMAIN counts THEN counts[k] ELSE 1
CountsGet(k) == Get(counts, k)

\* NaiveCounter.inc, line 19: current = self._counts.get(key, 0)
NaiveIncRead(t) ==
  /\ pc[t] = "inc" /\ counter_mode = "naive"
  /\ cur' = [cur EXCEPT ![t] = CountsGet(key[t])]
  /\ SetPc(t, "inc_sleep")
  /\ UNCHANGED <<key, snap, counter_mode, counts, counter_lock, incDone, resetSeen, stale, ncalls>>
  /\ UNCHANGED notCounter

\* NaiveCounter.inc, lines 21-22: after the sleep, self._counts[key] = current + 1
NaiveIncWrite(t) ==
  /\ pc[t] = "inc_sleep" /\ counter_mode = "naive"
  /\ counts' = Put(counts, key[t], NaiveNewValue(t))
  /\ stale' = [stale EXCEPT ![key[t]] = @ \/ (Get(counts, key[t]) # cur[t])]
  /\ incDone' = [incDone EXCEPT ![key[t]] = @ + 1]
  /\ SetPc(t, AfterIncPc(t))
  /\ Record(t, <<"count">>)
  /\ UNCHANGED <<key, cur, snap, counter_mode, counter_lock, resetSeen, ncalls>>
  /\ UNCHANGED <<limiterVars, inflightVars, logVars, testVars, startup, cfg, clients, req, loc>>

\* LockedCounter.inc, lines 40-41: take the lock and read self._counts.get(key, 0)
LockedIncAcquire(t) ==
  /\ pc[t] = "inc" /\ counter_mode = "locked"
  /\ CounterLockAvailable
  /\ counter_lock' = t
  /\ cur' = [cur EXCEPT ![t] = CountsGet(key[t])]
  /\ SetPc(t, "inc_locked")
  /\ UNCHANGED <<key, snap, counter_mode, counts, incDone, resetSeen, stale, ncalls>>
  /\ UNCHANGED notCounter

\* LockedCounter.inc, line 41: store the sum and leave the `with` block
LockedIncWrite(t) ==
  /\ pc[t] = "inc_locked"
  /\ counts' = Put(counts, key[t], cur[t] + 1)
  /\ counter_lock' = NoThread
  /\ stale' = [stale EXCEPT ![key[t]] = @ \/ (Get(counts, key[t]) # cur[t])]
  /\ incDone' = [incDone EXCEPT ![key[t]] = @ + 1]
  /\ SetPc(t, AfterIncPc(t))
  /\ Record(t, <<"count">>)
  /\ UNCHANGED <<key, cur, snap, counter_mode, resetSeen, ncalls>>
  /\ UNCHANGED <<limiterVars, inflightVars, logVars, testVars, startup, cfg, clients, req, loc>>

\* NaiveCounter.snapshot: dict(self._counts), no lock
NaiveSnapshot(t) ==
  /\ pc[t] = "snapshot" /\ counter_mode = "naive"
  /\ snap' = [snap EXCEPT ![t] = DictCopy(counts)]
  /\ SetPc(t, AfterSnapshotPc(t))
  /\ UNCHANGED <<key, cur, counter_mode, counts, counter_lock, incDone, resetSeen, stale, ncalls>>
  /\ UNCHANGED notCounter

\* LockedCounter.snapshot, line 44: take the lock
LockedSnapshotAcquire(t) ==
  /\ pc[t] = "snapshot" /\ counter_mode = "locked"
  /\ CounterLockAvailable
  /\ counter_lock' = t
  /\ SetPc(t, "snapshot_locked")
  /\ UNCHANGED <<key, cur, snap, counter_mode, counts, incDone, resetSeen, stale, ncalls>>
  /\ UNCHANGED notCounter

\* LockedCounter.snapshot, line 45: copy and leave the `with` block
LockedSnapshotCopy(t) ==
  /\ pc[t] = "snapshot_locked"
  /\ snap' = [snap EXCEPT ![t] = DictCopy(counts)]
  /\ counter_lock' = NoThread
  /\ SetPc(t, AfterSnapshotPc(t))
  /\ UNCHANGED <<key, cur, counter_mode, counts, incDone, resetSeen, stale, ncalls>>
  /\ UNCHANGED notCounter

\* NaiveCounter.reset: self._counts.clear(), no lock
NaiveReset(t) ==
  /\ pc[t] = "reset" /\ counter_mode = "naive"
  /\ counts' = EmptyDict
  /\ incDone' = [k \in DOMAIN incDone |-> 0]
  /\ resetSeen' = TRUE
  /\ SetPc(t, AfterResetPc(t))
  /\ UNCHANGED <<key, cur, snap, counter_mode, counter_lock, stale, ncalls>>
  /\ UNCHANGED notCounter

\* LockedCounter.reset, line 48: take the lock
LockedResetAcquire(t) ==
  /\ pc[t] = "reset" /\ counter_mode = "locked"
  /\ CounterLockAvailable
  /\ counter_lock' = t
  /\ SetPc(t, "reset_locked")
  /\ UNCHANGED <<key, cur, snap, counter_mode, counts, incDone, resetSeen, stale, ncalls>>
  /\ UNCHANGED notCounter

\* LockedCounter.reset, line 49: clear and leave the `with` block
LockedResetClear(t) ==
  /\ pc[t] = "reset_locked"
  /\ counts' = EmptyDict
  /\ counter_lock' = NoThread
  /\ incDone' = [k \in DOMAIN incDone |-> 0]
  /\ resetSeen' = TRUE
  /\ SetPc(t, AfterResetPc(t))
  /\ UNCHANGED <<key, cur, snap, counter_mode, stale, ncalls>>
  /\ UNCHANGED notCounter

CounterStep(t) ==
  \/ NaiveIncRead(t) \/ NaiveIncWrite(t)
  \/ LockedIncAcquire(t) \/ LockedIncWrite(t)
  \/ NaiveSnapshot(t) \/ LockedSnapshotAcquire(t) \/ LockedSnapshotCopy(t)
  \/ NaiveReset(t) \/ LockedResetAcquire(t) \/ LockedResetClear(t)

\* ------------------------------------------------------------- rate limiter
notLimiter == <<counterVars, inflightVars, logVars, testVars>>

\* Time and tokens are exact rationals in the code's arithmetic (floats).  The model
\* measures tokens in 1/Resolution of a token and time in ticks of
\* 1/(BaseRps * Resolution) second, so that a limiter of rps = m * BaseRps accrues
\* m token units per tick.
BaseRps == 5


OneToken == Resolution
Seconds(n) == n * BaseRps * Resolution
\* elapsed * self._rps, in token units, for elapsed in ticks
Accrued(elapsed, rps) == (elapsed * rps) \div BaseRps


\* RateLimiter.__init__, lines 24-27: the two ValueError checks pass
RateLimiterInitOk_AllowsZero(rps, burst) == rps >= 0 /\ burst > 0
RateLimiterInitOk(rps, burst) == rps > 0 /\ burst > 0

\* RateLimiter.__init__, lines 28-29
NewLimiter(rps, burst) == [rps |-> rps, burst |-> burst * OneToken]

NoLimiter == [rps |-> 0, burst |-> 0]

\* allow, line 43: min(self._burst, bucket.tokens + elapsed * self._rps)
RefillTokens_NoCap(tokens, elapsed) == tokens + Accrued(elapsed, limiter.rps)
RefillTokens(tokens, elapsed) == Min(limiter.burst, tokens + Accrued(elapsed, limiter.rps))

\* allow, lines 42-44: the bucket after the refill step
Refill_KeepsLastRefill(b, n) ==
  IF n - b.last_refill > 0
  THEN [tokens |-> RefillTokens(b.tokens, n - b.last_refill), last_refill |-> b.last_refill]
  ELSE b
Refill_Backwards(b, n) ==
  IF n - b.last_refill # 0
  THEN [tokens |-> RefillTokens(b.tokens, n - b.last_refill), last_refill |-> n]
  ELSE b
Refill(b, n) ==
  IF n - b.last_refill > 0
  THEN [tokens |-> RefillTokens(b.tokens, n - b.last_refill), last_refill |-> n]
  ELSE b

\* allow, lines 36-39: the bucket of ip, created full on first sight
Lookup_StartsEmpty(k, n) ==
  IF k \in DOMAIN buckets THEN buckets[k] ELSE [tokens |-> 0, last_refill |-> n]
Lookup(k, n) ==
  IF k \in DOMAIN buckets THEN buckets[k] ELSE [tokens |-> limiter.burst, last_refill |-> n]

\* allow, line 45: bucket.tokens >= 1.0
HasToken_Lenient(b) == b.tokens > 0
HasToken(b) == b.tokens >= OneToken

\* allow, lines 45-48: the bucket after the decision
Charge_Unconditional(b) == [b EXCEPT !.tokens = @ - OneToken]
Charge(b) == IF HasToken(b) THEN [b EXCEPT !.tokens = @ - OneToken] ELSE b

\* `with self._lock:` of RateLimiter can be entered only when the lock is free
\* (the RLock is never re-entered: allow calls nothing that takes it).
LimiterLockAvailable_NoLock == TRUE
LimiterLockAvailable == limiter_lock = NoThread

\* allow(ip), line 34: now = time.monotonic(), before the lock is taken
AllowReadClock(t, k) ==
  /\ ip' = [ip EXCEPT ![t] = k]
  /\ now' = [now EXCEPT ![t] = clock]
  /\ SetPc(t, "allow_wait")
  /\ UNCHANGED <<limiter, buckets, limiter_lock, clock, ret, admitted, refilled, created, skewSeen>>

\* allow, line 35: with self._lock
AllowAcquire(t) ==
  /\ pc[t] = "allow_wait"
  /\ LimiterLockAvailable
  /\ limiter_lock' = t
  /\ SetPc(t, "allow_locked")
  /\ UNCHANGED <<limiter, buckets, clock, ip, now, ret, admitted, refilled, created, skewSeen, ncalls>>
  /\ UNCHANGED <<notLimiter, serverVars>>

\* allow, lines 36-48: lookup or create, refill, decide, charge; leaving the
\* `with` block releases the lock
AllowBody(t) ==
  /\ pc[t] = "allow_locked"
  /\ LET k == ip[t]
         b0 == Lookup(k, now[t])
         b1 == Refill(b0, now[t])
         b2 == Charge(b1)
     IN /\ buckets' = Put(buckets, k, b2)
        /\ ret' = [ret EXCEPT ![t] = HasToken(b1)]
        /\ admitted' = [admitted EXCEPT ![k] = IF HasToken(b1) THEN @ + 1 ELSE @]
        /\ refilled' = [refilled EXCEPT ![k] = @ + (b1.tokens - b0.tokens)]
        /\ created' = IF k \in DOMAIN buckets THEN created ELSE [created EXCEPT ![k] = now[t]]
        /\ skewSeen' = (skewSeen \/ now[t] < b0.last_refill)
        /\ SetPc(t, AfterAllowPc(t, HasToken(b1)))
        /\ loc' = AfterAllowLocs(t, HasToken(b1))
        /\ Record(t, AfterAllowTrace(HasToken(b1)))
  /\ limiter_lock' = NoThread
  /\ ip' = [ip EXCEPT ![t] = NoIp]
  /\ now' = [now EXCEPT ![t] = 0]
  /\ UNCHANGED <<limiter, clock, ncalls, startup, cfg, clients, req>>
  /\ UNCHANGED notLimiter

LimiterStep(t) == AllowAcquire(t) \/ AllowBody(t)

\* time.monotonic() advances
Tick ==
  /\ clock < MaxClock
  /\ clock' = clock + 1
  /\ UNCHANGED <<limiter, buckets, limiter_lock, ip, now, ret, admitted, refilled, created, skewSeen>>
  /\ UNCHANGED <<pc, ncalls>>
  /\ UNCHANGED <<notLimiter, serverVars>>

\* ------------------------------------------------------------- inflight tracker
notInflight == <<counterVars, limiterVars, logVars, testVars>>

\* `with type(self).inflight_lock:` can be entered only when the lock is free
InflightLockAvailable_NoLock == TRUE
InflightLockAvailable == inflight_lock = NoThread

\* _inflight_inc, line 325
IncValue(v) == v + 1

\* _inflight_dec, lines 329-330: the decrement is skipped at 0
DecValue_Unguarded(v) == v - 1
DecValue(v) == IF v > 0 THEN v - 1 ELSE v

\* _inflight_inc, line 324: take the lock
InflightIncAcquire(t) ==
  /\ pc[t] = "infl_inc"
  /\ InflightLockAvailable
  /\ inflight_lock' = t
  /\ SetPc(t, "infl_inc_locked")
  /\ UNCHANGED <<inflight, infl, clamped, ncalls>>
  /\ UNCHANGED <<notInflight, serverVars>>

\* _inflight_inc, lines 324-325: the `with` block ends, and the lock is released,
\* before do_GET goes on to its sleep
LockAfterInflightInc_HoldsLock(t) == IF Handling(t) THEN t ELSE NoThread
LockAfterInflightInc(t) == NoThread

\* _inflight_inc, line 325: add one and leave the `with` block
InflightIncBody(t) ==
  /\ pc[t] = "infl_inc_locked"
  /\ inflight' = IncValue(inflight)
  /\ inflight_lock' = LockAfterInflightInc(t)
  /\ SetPc(t, AfterInflightIncPc(t))
  /\ loc' = [loc EXCEPT ![t] = AfterInflightIncLoc(t)]
  /\ Record(t, <<"infl_inc">>)
  /\ UNCHANGED <<infl, clamped, ncalls, startup, cfg, clients, req>>
  /\ UNCHANGED notInflight

\* _inflight_dec, line 328: take the lock
InflightDecAcquire(t) ==
  /\ pc[t] = "infl_dec"
  /\ InflightLockAvailable
  /\ inflight_lock' = t
  /\ SetPc(t, "infl_dec_locked")
  /\ UNCHANGED <<inflight, infl, clamped, ncalls>>
  /\ UNCHANGED <<notInflight, serverVars>>

\* _inflight_dec, lines 329-330: subtract one unless the value is 0, leave the `with` block
InflightDecBody(t) ==
  /\ pc[t] = "infl_dec_locked"
  /\ inflight' = DecValue(inflight)
  /\ clamped' = (clamped \/ inflight = 0)
  /\ inflight_lock' = NoThread
  /\ SetPc(t, AfterInflightDecPc(t))
  /\ Record(t, <<"infl_dec">>)
  /\ UNCHANGED <<infl, ncalls>>
  /\ UNCHANGED <<notInflight, startup, cfg, clients, req, loc>>

\* _inflight_peek, line 333: take the lock
InflightPeekAcquire(t) ==
  /\ pc[t] = "peek"
  /\ InflightLockAvailable
  /\ inflight_lock' = t
  /\ SetPc(t, "peek_locked")
  /\ UNCHANGED <<inflight, infl, clamped, ncalls>>
  /\ UNCHANGED <<notInflight, serverVars>>

\* _inflight_peek, lines 333-334: `return` inside the `with` block releases the lock,
\* so the _log call that is given the value starts with no lock held
LockAfterPeek_HoldsLock(t) == IF Handling(t) THEN t ELSE NoThread
LockAfterPeek(t) == NoThread

\* _inflight_peek, line 334: the value returned; do_GET calls it at lines 121 and 128,
\* before the _inflight_dec of line 134
PeekValue_AfterDec(t) == IF inflight > 0 THEN inflight - 1 ELSE inflight
PeekValue(t) == inflight

\* _inflight_peek, line 334: return the value, leave the `with` block
InflightPeekBody(t) ==
  /\ pc[t] = "peek_locked"
  /\ infl' = [infl EXCEPT ![t] = PeekValue(t)]
  /\ inflight_lock' = LockAfterPeek(t)
  /\ SetPc(t, AfterPeekPc(t))
  /\ UNCHANGED <<inflight, clamped, ncalls>>
  /\ UNCHANGED <<notInflight, serverVars>>

InflightStep(t) ==
  \/ InflightIncAcquire(t) \/ InflightIncBody(t)
  \/ InflightDecAcquire(t) \/ InflightDecBody(t)
  \/ InflightPeekAcquire(t) \/ InflightPeekBody(t)

\* ------------------------------------------------------------- request log
notLog == <<counterVars, limiterVars, inflightVars, testVars>>

LogsLockAvailable_NoLock == TRUE
LogsLockAvailable == logs_lock = NoThread

\* The status a _log call of do_GET is given: 429 at line 95; _last_status, or 499 when
\* it is None, at lines 123-125; _last_status, or 200 when it is None, at lines 130-133.
LoggedStatus(t) ==
  IF loc[t].status # NoStatus THEN loc[t].status
  ELSE IF loc[t].stage = "except" THEN 499 ELSE 200

\* _log, lines 339-349: the entry (its wall-clock `ts` is left out; `request` is
\* history: the request the entry was written for)
LogEntry(t, id) ==
  [id |-> id, ip |-> ClientKey(req[t]), method |-> "GET", path |-> req[t].target,
   status |-> LoggedStatus(t), dur |-> loc[t].dur, inflight |-> infl[t], thread |-> t,
   request |-> req[t].n]

\* No /api/logs request is being answered; otherwise asked = <<[since, last]>>.
NoQuestion == <<>>

\* deque(maxlen=...).append: the oldest entry is dropped when the deque is full
DequeAppend_Unbounded(q, e) == Append(q, e)
DequeAppend(q, e) ==
  IF Len(q) < maxlen THEN Append(q, e) ELSE Append(Tail(q), e)

\* _log, line 337: take the lock
LogAcquire(t) ==
  /\ pc[t] = "log"
  /\ LogsLockAvailable
  /\ logs_lock' = t
  /\ SetPc(t, "log_inc")
  /\ UNCHANGED <<logs, log_seq, maxlen, written, asked, items, ncalls>>
  /\ UNCHANGED <<notLog, serverVars>>

\* _log, line 338: type(self).log_seq += 1
LogIncSeq(t) ==
  /\ pc[t] = "log_inc"
  /\ log_seq' = log_seq + 1
  /\ SetPc(t, "log_locked")
  /\ UNCHANGED <<logs, logs_lock, maxlen, written, asked, items, ncalls>>
  /\ UNCHANGED <<notLog, serverVars>>

\* _log, line 339: `with type(self).logs_lock:` releases the lock when the block is
\* left, also in the call made from the except block of do_GET
LockAfterLog_LeavesLock(t) == IF Handling(t) /\ loc[t].exc THEN t ELSE NoThread
LockAfterLog(t) == NoThread

\* _log, lines 339-350: build the entry with the sequence number as id, append it,
\* leave the block
LogBody(t) ==
  /\ pc[t] = "log_locked"
  /\ logs' = DequeAppend(logs, LogEntry(t, log_seq))
  /\ written' = Append(written, LogEntry(t, log_seq))
  /\ logs_lock' = LockAfterLog(t)
  /\ UNCHANGED <<log_seq, maxlen, asked, items>>
  /\ SetPc(t, AfterLogPc(t))
  /\ loc' = [loc EXCEPT ![t] = AfterLogLoc(t)]
  /\ Record(t, <<"log">>)
  /\ UNCHANGED <<ncalls, startup, cfg, clients, req>>
  /\ UNCHANGED notLog

LogStep(t) == LogAcquire(t) \/ LogIncSeq(t) \/ LogBody(t)

\* ------------------------------------------------------------- /api/logs
\* A query parameter value is the sequence of its characters; parse_qs drops a blank
\* value, so a parameter that is absent and one that is blank are both <<>>.
Absent == <<>>
DigitChars == {"0", "1", "2", "3", "4", "5", "6", "7", "8", "9"}
SignChars == {"-", "+"}

DigitValue(c) ==
  CASE c = "0" -> 0 [] c = "1" -> 1 [] c = "2" -> 2 [] c = "3" -> 3 [] c = "4" -> 4
    [] c = "5" -> 5 [] c = "6" -> 6 [] c = "7" -> 7 [] c = "8" -> 8 [] c = "9" -> 9

IsDigits(cs) == cs # <<>> /\ \A i \in DOMAIN cs : cs[i] \in DigitChars

RECURSIVE DigitsValue(_)
DigitsValue(cs) ==
  IF cs = <<>> THEN 0
  ELSE 10 * DigitsValue(SubSeq(cs, 1, Len(cs) - 1)) + DigitValue(cs[Len(cs)])

\* int(s) succeeds: an optional sign and decimal digits
IsInt(cs) ==
  \/ IsDigits(cs)
  \/ Len(cs) > 1 /\ cs[1] \in SignChars /\ IsDigits(Tail(cs))

\* int(s)
IntValue(cs) ==
  IF cs[1] = "-" THEN 0 - DigitsValue(Tail(cs))
  ELSE IF cs[1] = "+" THEN DigitsValue(Tail(cs))
  ELSE DigitsValue(cs)

\* _handle_api, lines 230-237: int(q.get(name, [default])[0]), the default again on
\* ValueError
DefaultSince == 0
DefaultLast == 100
QueryInt(v, default) == IF v # Absent /\ IsInt(v) THEN IntValue(v) ELSE default

\* _handle_api, line 238: last = max(1, min(500, last))
MinLast == 1
MaxLast == 500
ClampLast_NoClamp(n) == IF n < MinLast THEN MinLast ELSE n
ClampLast(n) ==
  LET m == IF MaxLast < n THEN MaxLast ELSE n
  IN IF m < MinLast THEN MinLast ELSE m

\* _handle_api, line 242: [e for e in items if e.get("id", 0) > since]
NewerThan_SinceInclusive(e, since) == e.id >= since
NewerThan(e, since) == e.id > since
SinceItems(its, since) == SelectSeq(its, LAMBDA e : NewerThan(e, since))

\* _handle_api, line 244: items[-last:], for last >= 1
LastItems(its, n) ==
  SubSeq(its, (IF n < Len(its) THEN Len(its) - n ELSE 0) + 1, Len(its))

\* _handle_api, lines 230-244: the list /api/logs?since=sv&last=lv answers with, given
\* the copy of the deque
ApiLogsItems(its, sv, lv) ==
  LET since == QueryInt(sv, DefaultSince)
      last == ClampLast(QueryInt(lv, DefaultLast))
  IN IF since > 0 THEN SinceItems(its, since) ELSE LastItems(its, last)

\* _handle_api, lines 227-239: an /api/logs request arrives, its query is parsed and
\* the lock is taken
ApiLogsAcquire(t, sv, lv) ==
  /\ pc[t] = "idle" /\ asked = NoQuestion
  /\ LogsLockAvailable
  /\ logs_lock' = t
  /\ asked' = <<[since |-> sv, last |-> lv]>>
  /\ SetPc(t, "logs_locked")
  /\ UNCHANGED <<logs, log_seq, maxlen, written, items, ncalls>>
  /\ UNCHANGED <<notLog, serverVars>>

\* _handle_api, lines 240-245: copy the deque, leave the block, select the entries
ApiLogsSelect(t) ==
  /\ pc[t] = "logs_locked"
  /\ items' = ApiLogsItems(logs, asked[1].since, asked[1].last)
  /\ logs_lock' = NoThread
  /\ SetPc(t, "logs_send")
  /\ UNCHANGED <<logs, log_seq, maxlen, written, asked, ncalls>>
  /\ UNCHANGED <<notLog, serverVars>>

\* _handle_api, lines 245-251: the body is sent and the handler returns
ApiLogsSend(t) ==
  /\ pc[t] = "logs_send"
  /\ asked' = NoQuestion
  /\ items' = <<>>
  /\ SetPc(t, "idle")
  /\ UNCHANGED <<logs, log_seq, logs_lock, maxlen, written, ncalls>>
  /\ UNCHANGED <<notLog, serverVars>>

\* ------------------------------------------------------------- make_server
\* make_server, lines 353-379: the counter is built, then the limiter, then the HTTP
\* server; a ValueError of RateLimiter.__init__ leaves make_server before the server
\* is created, and main does not catch it.
MakeServer ==
  /\ startup = "init"
  /\ counter_mode' = cfg.counter_mode
  /\ IF RateLimiterInitOk(cfg.rps, cfg.burst)
     THEN limiter' = NewLimiter(cfg.rps, cfg.burst) /\ startup' = "serving"
     ELSE limiter' = limiter /\ startup' = "config_error"
  /\ UNCHANGED <<key, cur, snap, counts, counter_lock, incDone, resetSeen, stale>>
  /\ UNCHANGED <<buckets, limiter_lock, clock, ip, now, ret, admitted, refilled, created, skewSeen>>
  /\ UNCHANGED <<pc, ncalls, cfg, clients, req, loc, trace, inflightVars, logVars, testVars>>

\* ------------------------------------------------------------- do_GET
\* ThreadingHTTPServer runs every request in a thread of its own (the model gives it
\* the first thread that handles no request); HTTPServer handles them one after the
\* other in the thread of serve_forever.
CanAccept_Threaded(t) ==
  /\ startup = "serving"
  /\ pc[t] = "idle" /\ ~Handling(t)
  /\ ncalls < MaxRequests
  /\ \A u \in Threads : u < t => Handling(u)
CanAccept(t) ==
  /\ startup = "serving"
  /\ pc[t] = "idle" /\ ~Handling(t)
  /\ ncalls < MaxRequests
  /\ IF cfg.server_type = "threaded"
     THEN \A u \in Threads : u < t => Handling(u)
     ELSE t = MainThread

Accepted(t, r) ==
  /\ req' = [req EXCEPT ![t] = [r EXCEPT !.n = ncalls + 1]]
  /\ ncalls' = ncalls + 1
  /\ UNCHANGED <<startup, cfg, clients, trace>>

\* do_GET, lines 71-84: /__counts takes a snapshot of the counter and answers 200
DoGetCounts(t, r) ==
  /\ CanAccept(t) /\ IsCountsTarget(r.target)
  /\ Accepted(t, r)
  /\ loc' = [Issued(r) EXCEPT ![t] = [NoLoc EXCEPT !.stage = "admin", !.status = 200]]
  /\ SetPc(t, "snapshot")
  /\ UNCHANGED <<counterVars, limiterVars, inflightVars, logVars, testVars>>

\* _handle_api, lines 157-285: the branch the path selects. /api/ping answers at once;
\* /api/reset resets the counter; /api/counter takes a snapshot; /api/inflight reads
\* the inflight value under its lock; /api/fire sends requests to this server; any
\* other path is answered 404.
ApiEntryPc(tg) ==
  CASE tg.path = "/api/reset" -> "reset"
    [] tg.path = "/api/counter" -> "snapshot"
    [] tg.path = "/api/inflight" -> "peek"
    [] tg.path = "/api/fire" -> "fire"
    [] OTHER -> "finish"

ApiStatus(tg) == IF tg.path = "/api/nope" THEN 404 ELSE 200

\* do_GET, lines 87-89: a path under /api/ goes to _handle_api
DoGetApi(t, r) ==
  /\ CanAccept(t) /\ ~IsCountsTarget(r.target) /\ IsApiTarget(r.target)
  /\ Accepted(t, r)
  /\ loc' = [Issued(r) EXCEPT ![t] = [NoLoc EXCEPT !.stage = "admin", !.status = ApiStatus(r.target)]]
  /\ SetPc(t, ApiEntryPc(r.target))
  /\ UNCHANGED <<counterVars, limiterVars, inflightVars, logVars, testVars>>

\* do_GET, line 92: every other request asks the limiter, whose first statement reads
\* the clock
DoGetLimited(t, r) ==
  /\ CanAccept(t) /\ ~IsCountsTarget(r.target) /\ ~IsApiTarget(r.target)
  /\ Accepted(t, r)
  /\ loc' = [Issued(r) EXCEPT ![t] = NoLoc]
  /\ AllowReadClock(t, ClientKey(r))
  /\ UNCHANGED <<counterVars, inflightVars, logVars, testVars>>

\* do_GET, lines 104-110: time.sleep(self.delay) is over; key = urlsplit(self.path).path
DoGetWake(t) ==
  /\ pc[t] = "sleeping" /\ clock >= loc[t].wake
  /\ key' = [key EXCEPT ![t] = UrlPath(req[t].target)]
  /\ loc' = [loc EXCEPT ![t].wake = 0]
  /\ Record(t, <<"delay">>)
  /\ SetPc(t, "inc")
  /\ UNCHANGED <<cur, snap, counter_mode, counts, counter_lock, incDone, resetSeen, stale>>
  /\ UNCHANGED <<ncalls, startup, cfg, clients, req, limiterVars, inflightVars, logVars, testVars>>

\* The locals on entry to the except block (exc) or, with no exception, to the finally
\* block: dur_ms = (time.monotonic() - start) * 1000.0
EnterHandlers(t, st, exc) ==
  [loc[t] EXCEPT !.status = st, !.exc = exc, !.dur = clock - loc[t].start,
                 !.stage = IF exc THEN "except" ELSE "finally"]

\* do_GET, lines 113-114: a directory target takes a snapshot for its listing
DoGetListDir(t) ==
  /\ pc[t] = "respond" /\ IsDirTarget(req[t].target)
  /\ SetPc(t, "snapshot")
  /\ UNCHANGED <<ncalls, counterVars, limiterVars, inflightVars, logVars, serverVars, testVars>>

\* What answering can do: respond, fail after the status line was sent (the peer is
\* gone), or fail before any status was set.
Outcomes == {"ok", "raise_after", "raise_before"}

\* _serve_custom_index, lines 293-297 and 316-320: os.listdir raises OSError for a
\* directory that cannot be read, which is answered with send_error(404) and not
\* raised; else 200. [status, exc]: the status set and whether an exception leaves.
ListingAnswer_Propagates(readable, o) ==
  IF ~readable THEN [status |-> NoStatus, exc |-> TRUE]
  ELSE [status |-> IF o = "raise_before" THEN NoStatus ELSE 200, exc |-> o # "ok"]
ListingAnswer(readable, o) ==
  [status |-> IF o = "raise_before" THEN NoStatus ELSE IF readable THEN 200 ELSE 404,
   exc |-> o # "ok"]

\* _serve_custom_index, lines 291-321
\* history: readable and outcome record what the listing met
DoGetListing(t, readable, o) ==
  /\ pc[t] = "listing"
  /\ LET a == ListingAnswer(readable, o)
         l == [EnterHandlers(t, a.status, a.exc) EXCEPT !.readable = readable, !.outcome = o]
     IN loc' = FetchReturned([loc EXCEPT ![t] = l], t, a.status)
  /\ SetPc(t, "peek")
  /\ Record(t, <<"respond">>)
  /\ UNCHANGED <<ncalls, startup, cfg, clients, req, counterVars, limiterVars, inflightVars, logVars, testVars>>

\* do_GET, line 118: super().do_GET() answers 200 with the file, or with the listing of
\* a directory whose path ends with a slash, or 404
DoGetServeFile(t, o) ==
  /\ pc[t] = "respond" /\ ~IsDirTarget(req[t].target)
  /\ LET st == IF o = "raise_before" THEN NoStatus
               ELSE IF UrlPath(req[t].target) \in DocRootFiles \cup SlashPaths THEN 200 ELSE 404
     IN loc' = FetchReturned([loc EXCEPT ![t] = [EnterHandlers(t, st, o # "ok") EXCEPT !.outcome = o]], t, st)
  /\ SetPc(t, "peek")
  /\ Record(t, <<"respond">>)
  /\ UNCHANGED <<ncalls, startup, cfg, clients, req, counterVars, limiterVars, inflightVars, logVars, testVars>>

\* _handle_api, lines 262-273: the fetches are submitted to a thread pool
DoGetFire(t) ==
  /\ pc[t] = "fire"
  /\ LET n == FireN(req[t].target.query)
     IN loc' = [loc EXCEPT ![t].unsent = n, ![t].left = n, ![t].oks = 0]
  /\ SetPc(t, "fire_wait")
  /\ UNCHANGED <<ncalls, startup, cfg, clients, req, trace, counterVars, limiterVars, inflightVars, logVars, testVars>>

\* _handle_api, lines 273-282: every fetch has returned; the answer reports the count
DoGetFireDone(t) ==
  /\ pc[t] = "fire_wait" /\ loc[t].unsent = 0 /\ loc[t].left = 0
  /\ SetPc(t, "finish")
  /\ UNCHANGED <<ncalls, counterVars, limiterVars, inflightVars, logVars, serverVars, testVars>>

\* do_GET returns (or the exception leaves it): the handler object and its locals are gone
DoGetFinish(t) ==
  /\ pc[t] = "finish"
  /\ req' = [req EXCEPT ![t] = NoReq]
  /\ loc' = [loc EXCEPT ![t] = NoLoc]
  /\ trace' = [trace EXCEPT ![t] = <<>>]
  /\ key' = [key EXCEPT ![t] = "/foo"]
  /\ cur' = [cur EXCEPT ![t] = 0]
  /\ snap' = [snap EXCEPT ![t] = EmptyDict]
  /\ ret' = [ret EXCEPT ![t] = FALSE]
  /\ infl' = [infl EXCEPT ![t] = 0]
  /\ SetPc(t, "idle")
  /\ UNCHANGED <<counter_mode, counts, counter_lock, incDone, resetSeen, stale>>
  /\ UNCHANGED <<limiter, buckets, limiter_lock, clock, ip, now, admitted, refilled, created, skewSeen>>
  /\ UNCHANGED <<inflight, inflight_lock, clamped>>
  /\ UNCHANGED <<ncalls, startup, cfg, clients, logVars, testVars>>

DoGetStep(t) ==
  \/ \E r \in Incoming : DoGetCounts(t, r) \/ DoGetApi(t, r) \/ DoGetLimited(t, r)
  \/ DoGetFire(t)
  \/ DoGetFireDone(t)
  \/ DoGetWake(t)
  \/ DoGetListDir(t)
  \/ \E readable \in BOOLEAN, o \in Outcomes : DoGetListing(t, readable, o)
  \/ \E o \in Outcomes : DoGetServeFile(t, o)
  \/ DoGetFinish(t)

\* ------------------------------------------------------------- harnesses
\* Worker threads calling the counter directly, as the workers of test_counter.py do.
StartCall(t) ==
  /\ pc[t] = "idle" /\ ~Handling(t) /\ ncalls < MaxCalls
  /\ ncalls' = ncalls + 1

CallInc(t, k) ==
  /\ StartCall(t)
  /\ key' = [key EXCEPT ![t] = k]
  /\ SetPc(t, "inc")
  /\ UNCHANGED <<cur, snap, counter_mode, counts, counter_lock, incDone, resetSeen, stale>>
  /\ UNCHANGED notCounter

CallSnapshot(t) ==
  /\ StartCall(t)
  /\ SetPc(t, "snapshot")
  /\ UNCHANGED <<counterVars, notCounter>>

CallReset(t) ==
  /\ StartCall(t)
  /\ SetPc(t, "reset")
  /\ UNCHANGED <<counterVars, notCounter>>

\* Threads calling one counter, with the history of which calls overlapped: a call
\* overlaps those that have started and not returned.
NoOverlap == [inc |-> FALSE, any |-> FALSE]
IncPcs == {"inc", "inc_sleep", "inc_locked"}
Overlaps(t, op) ==
  [inc |-> overlap.inc \/ (op = "inc" /\ \E u \in Threads \ {t} : pc[u] \in IncPcs),
   any |-> overlap.any \/ \E u \in Threads \ {t} : pc[u] # "idle"]

SeqUnchanged ==
  /\ UNCHANGED <<limiterVars, inflightVars, logVars, serverVars>>
  /\ UNCHANGED <<test_pc, test_calling, test_i, allowed1, sixth, allowed2, sleep_start, page, poll, lat, objs, handlers>>

SeqCallInc(t, k) ==
  /\ StartCall(t)
  /\ key' = [key EXCEPT ![t] = k]
  /\ SetPc(t, "inc")
  /\ overlap' = Overlaps(t, "inc")
  /\ UNCHANGED <<cur, snap, counter_mode, counts, counter_lock, incDone, resetSeen, stale>>
  /\ SeqUnchanged

SeqCallSnapshot(t) ==
  /\ StartCall(t)
  /\ SetPc(t, "snapshot")
  /\ overlap' = Overlaps(t, "snapshot")
  /\ UNCHANGED counterVars
  /\ SeqUnchanged

SeqCallReset(t) ==
  /\ StartCall(t)
  /\ SetPc(t, "reset")
  /\ overlap' = Overlaps(t, "reset")
  /\ UNCHANGED counterVars
  /\ SeqUnchanged

\* Threads calling allow(ip) directly on one limiter.
CallAllow(t, k) ==
  /\ StartCall(t)
  /\ AllowReadClock(t, k)
  /\ UNCHANGED <<notLimiter, serverVars>>

\* Threads calling the inflight tracker directly.
CallInflightInc(t) ==
  /\ StartCall(t)
  /\ SetPc(t, "infl_inc")
  /\ UNCHANGED <<inflightVars, notInflight, serverVars>>

CallInflightDec(t) ==
  /\ StartCall(t)
  /\ SetPc(t, "infl_dec")
  /\ UNCHANGED <<inflightVars, notInflight, serverVars>>

CallInflightPeek(t) ==
  /\ StartCall(t)
  /\ SetPc(t, "peek")
  /\ UNCHANGED <<inflightVars, notInflight, serverVars>>

\* Threads calling _log directly, with the statuses do_GET passes.
LogStatuses == {200, 429}

CallLog(t, st) ==
  /\ StartCall(t)
  /\ loc' = [loc EXCEPT ![t] = [NoLoc EXCEPT !.status = st]]
  /\ SetPc(t, "log")
  /\ UNCHANGED <<startup, cfg, clients, req, trace, logVars, notLog>>

\* One thread filling the log and asking for it: the number of entries written, the
\* moments at which /api/logs is asked, and the parameter values it is asked with.
MaxAppends == 1500
QueryPoints == {0, 1, 100, 101, 500, 501, 1000, 1500}
SinceValues ==
  {Absent, <<"a", "b", "c">>, <<"0">>, <<"-", "1">>, <<"6", "0", "0">>, <<"1", "4", "9", "9">>}
LastValues ==
  {Absent, <<"x">>, <<"0">>, <<"1">>, <<"5", "0", "0">>, <<"5", "0", "1">>}

BurstSizes == {1, 100, 500}

\* _log, lines 336-350, called by thread t with no other thread running: the deque,
\* the sequence number and the history after the call
LogOnce(st, t) ==
  LET e == LogEntry(t, st.log_seq + 1)
  IN [log_seq |-> st.log_seq + 1, logs |-> DequeAppend(st.logs, e),
      written |-> Append(st.written, e)]

\* n calls of _log in a row by thread t (the first half of the calls is evaluated
\* before the second starts: its sequence number has always grown)
RECURSIVE LogCalls(_, _, _)
LogCalls(st, t, n) ==
  IF n = 0 THEN st
  ELSE IF n = 1 THEN LogOnce(st, t)
  ELSE LET half == LogCalls(st, t, n \div 2)
       IN IF half.log_seq > st.log_seq THEN LogCalls(half, t, n - (n \div 2)) ELSE half

WriteLogs(t, n) ==
  /\ pc[t] = "idle" /\ asked = NoQuestion /\ Len(written) + n <= MaxAppends
  /\ LET st == LogCalls([log_seq |-> log_seq, logs |-> logs, written |-> written], t, n)
     IN log_seq' = st.log_seq /\ logs' = st.logs /\ written' = st.written
  /\ UNCHANGED <<pc, ncalls, logs_lock, maxlen, asked, items, notLog, serverVars>>

AskLogs(t) ==
  /\ Len(written) \in QueryPoints
  /\ \E sv \in SinceValues, lv \in LastValues : ApiLogsAcquire(t, sv, lv)

\* ------------------------------------------------------------- _serve_custom_index
\* The document root: a file and a directory that holds a file. os.listdir of a
\* directory, sorted, with os.path.isdir of each name.
DocRoot == "/"
DirEntries(d) ==
  CASE d = "/" -> <<[name |-> "a.txt", isdir |-> FALSE], [name |-> "sub", isdir |-> TRUE]>>
    [] d = "/sub/" -> <<[name |-> "b.txt", isdir |-> FALSE]>>
    [] OTHER -> <<>>

NoPage == [path |-> "-", counts |-> EmptyDict, status |-> NoStatus, links |-> <<>>]

\* The keys the counter can hold for this document root, and the snapshots of it
ListingKeys == {"/a.txt", "/sub/", "/sub/b.txt", "/sub/a.txt"}
Snapshots == UNION {[S -> 1..2] : S \in SUBSET ListingKeys}

\* _serve_custom_index, line 301: base = self.path if self.path.endswith('/') else
\* self.path + '/'
BasePath(p) == IF p \in SlashPaths THEN p ELSE p \o "/"

\* _serve_custom_index, lines 302-306: one link per name: path, href and count
Link(base, e, cnts) ==
  LET path == e.name \o (IF e.isdir THEN "/" ELSE "")
      href == base \o path
  IN [href |-> href, text |-> path, count |-> Get(cnts, href)]

\* _serve_custom_index, lines 293-306: the names of document_root, each with its link
Links(p, document_root, cnts) ==
  LET its == DirEntries(document_root)
  IN [i \in DOMAIN its |-> Link(BasePath(p), its[i], cnts)]

\* _serve_custom_index(counts, document_root=self.directory), lines 291-321, called at
\* line 115 of do_GET: 404 when the directory cannot be listed
ServeCustomIndex(readable) ==
  /\ page # NoPage /\ page.status = NoStatus
  /\ page' = IF readable
             THEN [page EXCEPT !.status = 200, !.links = Links(page.path, DocRoot, page.counts)]
             ELSE [page EXCEPT !.status = 404]
  /\ UNCHANGED <<pc, ncalls, counterVars, limiterVars, inflightVars, logVars, serverVars>>
  /\ UNCHANGED <<test_pc, test_calling, test_i, allowed1, sixth, allowed2, sleep_start, poll, lat, objs, overlap, handlers>>

\* ------------------------------------------------------------- test_concurrent_requests
\* lab_test.py: num_requests requests are submitted at once to a server whose handler
\* sleeps Config.delay = 1.0 s; every request is admitted. Handling takes logical time
\* only in time.sleep: the part of do_GET before the sleep and the part after it are
\* one step each, and time passes only when no such step can be taken.
LatRequests == 10
LatIds == 1..LatRequests
LatDelay == Seconds(1)
NoLat == [server |-> "none", clock |-> 0, state |-> <<>>, wake |-> <<>>, finished |-> 0]

\* make_server, lines 372-375: ThreadingHTTPServer starts a thread for every accepted
\* connection; HTTPServer handles a request to its end before it accepts the next
LatCanAccept_Sequential(i) == \A j \in LatIds : lat.state[j] # "sleeping"
LatCanAccept(i) ==
  lat.server = "threaded" \/ \A j \in LatIds : lat.state[j] # "sleeping"

\* do_GET, lines 63-104: request i is accepted and handled up to time.sleep(self.delay)
LatAccept(i) ==
  /\ lat.server # "none"
  /\ lat.state[i] = "sent" /\ \A j \in LatIds : j < i => lat.state[j] # "sent"
  /\ LatCanAccept(i)
  /\ lat' = [lat EXCEPT !.state[i] = "sleeping", !.wake[i] = lat.clock + LatDelay]

\* do_GET, lines 104-134: the sleep is over, the request is answered and logged
LatFinish(i) ==
  /\ lat.server # "none"
  /\ lat.state[i] = "sleeping" /\ lat.clock >= lat.wake[i]
  /\ lat' = [lat EXCEPT !.state[i] = "done", !.finished = lat.clock]

\* Logical time passes while every request in progress sleeps and none can be accepted
LatTick ==
  /\ lat.server # "none"
  /\ \E i \in LatIds : lat.state[i] # "done"
  /\ \A i \in LatIds :
       /\ lat.state[i] = "sleeping" => lat.clock < lat.wake[i]
       /\ ~(lat.state[i] = "sent" /\ (\A j \in LatIds : j < i => lat.state[j] # "sent")
              /\ LatCanAccept(i))
  /\ lat' = [lat EXCEPT !.clock = @ + 1]

LatUnchanged ==
  /\ UNCHANGED <<pc, ncalls, counterVars, limiterVars, inflightVars, logVars, serverVars>>
  /\ UNCHANGED <<test_pc, test_calling, test_i, allowed1, sixth, allowed2, sleep_start, page, poll, objs, overlap, handlers>>

\* ------------------------------------------------------------- the client key
\* The requests the key is resolved for.
KeyRequests ==
  [peer : Ips, xff : KeyHeaders, target : {Target("/a.txt", NoQuery)}, parent : {NoThread}, n : {0}]

\* do_GET, lines 63-68: the handler of request r resolves the client key
DoGetResolveKey(t, r) ==
  /\ startup = "serving" /\ pc[t] = "idle" /\ ~Handling(t)
  /\ req' = [req EXCEPT ![t] = r]
  /\ ip' = [ip EXCEPT ![t] = ClientKey(r)]
  /\ SetPc(t, "key")
  /\ UNCHANGED <<limiter, buckets, limiter_lock, clock, now, ret, admitted, refilled, created, skewSeen>>
  /\ UNCHANGED <<ncalls, startup, cfg, clients, loc, trace, counterVars, inflightVars, logVars, testVars>>

\* The handler is done with the request
DoGetKeyDone(t) ==
  /\ pc[t] = "key"
  /\ req' = [req EXCEPT ![t] = NoReq]
  /\ ip' = [ip EXCEPT ![t] = NoIp]
  /\ SetPc(t, "idle")
  /\ UNCHANGED <<limiter, buckets, limiter_lock, clock, now, ret, admitted, refilled, created, skewSeen>>
  /\ UNCHANGED <<ncalls, startup, cfg, clients, loc, trace, counterVars, inflightVars, logVars, testVars>>

\* ------------------------------------------------------------- the dicts of a counter
\* A Python dict is an object: two names can refer to the same one. The objects are
\* CountsObj, the dict self._counts made by __init__ (lines 15 and 36), and for every
\* caller t the dict its latest snapshot() call made (object t). ref[t] is the object
\* the caller's result refers to. expect[t] is what the caller's own writes have made
\* of its snapshot, shadow what inc and reset have made of the counter.
CountsObj == 0
Objects == {CountsObj} \cup Threads
NoObjs ==
  [heap |-> <<>>, ref |-> <<>>, has |-> <<>>, expect |-> <<>>, shadow |-> EmptyDict,
   fresh |-> FALSE, taken |-> <<>>, takenFresh |-> <<>>, ops |-> 0]
NewObjs ==
  [heap |-> [o \in Objects |-> EmptyDict], ref |-> [t \in Threads |-> t],
   has |-> [t \in Threads |-> FALSE], expect |-> [t \in Threads |-> EmptyDict],
   shadow |-> EmptyDict, fresh |-> FALSE, taken |-> [t \in Threads |-> EmptyDict],
   takenFresh |-> [t \in Threads |-> FALSE], ops |-> 0]

\* snapshot, lines 26 and 45: dict(self._counts) makes a new object with the same
\* items; [heap, ref] are the objects afterwards and the one returned to caller t
SnapshotResult_NoCopy(h, t) == [heap |-> h, ref |-> CountsObj]
SnapshotResult(h, t) == [heap |-> [h EXCEPT ![t] = DictCopy(h[CountsObj])], ref |-> t]

ObjOp == objs.heap # <<>> /\ objs.ops < MaxCalls

\* inc(key), lines 17-22 and 39-41, with no other call in progress
ObjInc(k) ==
  /\ ObjOp
  /\ objs' = [objs EXCEPT !.heap[CountsObj] = Put(@, k, Get(@, k) + 1),
                          !.shadow = Put(@, k, Get(@, k) + 1),
                          !.fresh = FALSE, !.ops = @ + 1]

\* snapshot() called by t, lines 24-26 and 43-45
ObjSnapshot(t) ==
  /\ ObjOp
  /\ LET r == SnapshotResult(objs.heap, t)
     IN objs' = [objs EXCEPT !.heap = r.heap, !.ref[t] = r.ref, !.has[t] = TRUE,
                             !.expect[t] = objs.heap[CountsObj],
                             !.taken[t] = r.heap[r.ref],
                             !.takenFresh[t] = objs.fresh, !.ops = @ + 1]

\* reset(), lines 28-29 and 47-49: self._counts.clear() empties the same object
ObjReset ==
  /\ ObjOp
  /\ objs' = [objs EXCEPT !.heap[CountsObj] = EmptyDict, !.shadow = EmptyDict,
                          !.fresh = TRUE, !.ops = @ + 1]

\* The caller writes to the dict snapshot() gave it: d[k] = v
ObjMutate(t, k, v) ==
  /\ ObjOp /\ objs.has[t]
  /\ objs' = [objs EXCEPT !.heap[objs.ref[t]] = Put(@, k, v),
                          !.expect[t] = Put(@, k, v), !.ops = @ + 1]

ObjUnchanged ==
  /\ UNCHANGED <<pc, ncalls, counterVars, limiterVars, inflightVars, logVars, serverVars>>
  /\ UNCHANGED <<test_pc, test_calling, test_i, allowed1, sixth, allowed2, sleep_start, page, poll, lat, overlap, handlers>>

\* A client that polls /api/logs with since set to the largest id it has received
\* (no since while it has received none), on a server whose threads write the log.
NoPoll == [last_id |-> 0, base |-> 0, got |-> <<>>, overrun |-> FALSE]

DigitChar(d) ==
  CASE d = 0 -> "0" [] d = 1 -> "1" [] d = 2 -> "2" [] d = 3 -> "3" [] d = 4 -> "4"
    [] d = 5 -> "5" [] d = 6 -> "6" [] d = 7 -> "7" [] d = 8 -> "8" [] d = 9 -> "9"

\* the decimal digits of n >= 0
RECURSIVE ToDigits(_)
ToDigits(n) ==
  IF n < 10 THEN <<DigitChar(n)>> ELSE ToDigits(n \div 10) \o <<DigitChar(n % 10)>>

RECURSIVE LargestId(_, _)
LargestId(its, m) ==
  IF its = <<>> THEN m
  ELSE LargestId(Tail(its), IF its[1].id > m THEN its[1].id ELSE m)

PollAsk(t) ==
  ApiLogsAcquire(t, IF poll.last_id > 0 THEN ToDigits(poll.last_id) ELSE Absent, Absent)

\* _handle_api, lines 245-251: the body is sent, the handler returns, and the client
\* takes the entries
PollReceive(t) ==
  /\ pc[t] = "logs_send"
  /\ LET newest == LargestId(items, poll.last_id)
     IN poll' = [last_id |-> newest,
                 base |-> IF poll.last_id = 0 THEN newest ELSE poll.base,
                 got |-> IF poll.last_id > 0 THEN poll.got \o items ELSE poll.got,
                 overrun |-> poll.overrun
                               \/ (poll.last_id > 0 /\ newest - poll.last_id >= maxlen)]
  /\ asked' = NoQuestion
  /\ items' = <<>>
  /\ SetPc(t, "idle")
  /\ UNCHANGED <<logs, log_seq, logs_lock, maxlen, written, ncalls>>
  /\ UNCHANGED <<test_pc, test_calling, test_i, allowed1, sixth, allowed2, sleep_start, page, lat, objs, overlap, handlers>>
  /\ UNCHANGED <<counterVars, limiterVars, inflightVars, serverVars>>

\* ------------------------------------------------------------- test_token_bucket_allows_rate
\* The test of tests/test_rate_limiter.py, run by the main thread on a fresh limiter:
\* `burst` immediate calls, one more, a sleep of at least one second, five calls.
TestBurst == 5
TestCalls2 == 5
TestSlack == 1
TestIp == "1.2.3.4"

TestBursts == {1, 2, TestBurst}

\* lines 11, 14, 17: rl.allow(ip)
TestCall ==
  /\ test_pc \in {"first", "sixth", "second"} /\ ~test_calling
  /\ pc[MainThread] = "idle"
  /\ AllowReadClock(MainThread, TestIp)
  /\ test_calling' = TRUE
  /\ UNCHANGED <<test_pc, test_i, allowed1, sixth, allowed2, sleep_start, page, poll, lat, objs, overlap, ncalls, handlers>>
  /\ UNCHANGED <<counterVars, inflightVars, logVars, serverVars>>

\* lines 11, 14, 17: the result of the call is summed, and the phase ends with its last call
TestCollect ==
  /\ test_calling /\ pc[MainThread] = "idle"
  /\ test_calling' = FALSE
  /\ LET r == ret[MainThread]
         one == IF r THEN 1 ELSE 0
     IN \/ /\ test_pc = "first"
           /\ allowed1' = allowed1 + one
           /\ IF (test_i + 1) * OneToken = limiter.burst
              THEN test_pc' = "sixth" /\ test_i' = 0
              ELSE test_pc' = test_pc /\ test_i' = test_i + 1
           /\ UNCHANGED <<sixth, allowed2, sleep_start>>
        \/ /\ test_pc = "sixth"
           /\ sixth' = r
           /\ test_pc' = "sleep"
           /\ sleep_start' = clock
           /\ UNCHANGED <<test_i, allowed1, allowed2>>
        \/ /\ test_pc = "second"
           /\ allowed2' = allowed2 + one
           /\ IF test_i + 1 = TestCalls2
              THEN test_pc' = "done" /\ test_i' = 0
              ELSE test_pc' = test_pc /\ test_i' = test_i + 1
           /\ UNCHANGED <<allowed1, sixth, sleep_start>>
  /\ UNCHANGED <<pc, ncalls, page, poll, lat, objs, overlap, handlers, counterVars, limiterVars, inflightVars, logVars, serverVars>>

\* line 16: time.sleep(1.05) returns once at least a second has passed
TestWake ==
  /\ test_pc = "sleep"
  /\ clock - sleep_start >= Seconds(1)
  /\ test_pc' = "second"
  /\ UNCHANGED <<test_calling, test_i, allowed1, sixth, allowed2, sleep_start>>
  /\ UNCHANGED <<pc, ncalls, page, poll, lat, objs, overlap, handlers, counterVars, limiterVars, inflightVars, logVars, serverVars>>

\* Time passes while the test sleeps, and (jitter) between the calls that follow.
TestTick ==
  /\ test_pc \in {"sleep", "second"}
  /\ clock < Seconds(1) + TestSlack
  /\ clock' = clock + 1
  /\ UNCHANGED <<limiter, buckets, limiter_lock, ip, now, ret, admitted, refilled, created, skewSeen>>
  /\ UNCHANGED <<pc, ncalls, counterVars, testVars, inflightVars, logVars, serverVars>>

\* ------------------------------------------------------------- specifications
\* Config: a configuration as main fills it from the command line (delay in ticks)
Cfg(rps, burst, mode, type) ==
  [rps |-> rps, burst |-> burst, delay |-> 1, counter_mode |-> mode, server_type |-> type,
   trust_xff |-> FALSE]

\* The configurations a server is started with; the last ones are invalid.
ServerCfgs ==
  { Cfg(2 * BaseRps, 1, "naive", "threaded"), Cfg(2 * BaseRps, 1, "locked", "threaded"),
    Cfg(2 * BaseRps, 1, "locked", "single") }
    \cup { Cfg(0, 1, "locked", "threaded"), Cfg(BaseRps, 0, "locked", "threaded"),
           Cfg(0 - BaseRps, 0 - 1, "locked", "threaded") }

\* The limiters the limiter harness runs on: <<rps, burst>>
LimiterCfgs == {<<BaseRps, 2>>, <<2 * BaseRps, 1>>}

InitThreads ==
  /\ pc = [t \in Threads |-> "idle"]
  /\ ncalls = 0

InitCounterState ==
  /\ key = [t \in Threads |-> "/foo"]
  /\ cur = [t \in Threads |-> 0]
  /\ snap = [t \in Threads |-> EmptyDict]
  /\ counts = EmptyDict
  /\ counter_lock = NoThread
  /\ incDone = [k \in Keys |-> 0]
  /\ resetSeen = FALSE
  /\ stale = [k \in Keys |-> FALSE]

InitLimiterState ==
  /\ buckets = EmptyDict
  /\ limiter_lock = NoThread
  /\ clock = 0
  /\ ip = [t \in Threads |-> NoIp]
  /\ now = [t \in Threads |-> 0]
  /\ ret = [t \in Threads |-> FALSE]
  /\ admitted = [k \in Ips |-> 0]
  /\ refilled = [k \in Ips |-> 0]
  /\ created = [k \in Ips |-> 0]
  /\ skewSeen = FALSE

InitHandlerState ==
  /\ inflight = 0
  /\ inflight_lock = NoThread
  /\ infl = [t \in Threads |-> 0]
  /\ clamped = FALSE
  /\ logs = <<>>
  /\ log_seq = 0
  /\ logs_lock = NoThread
  /\ written = <<>>
  /\ asked = NoQuestion
  /\ items = <<>>
  /\ req = [t \in Threads |-> NoReq]
  /\ loc = [t \in Threads |-> NoLoc]
  /\ trace = [t \in Threads |-> <<>>]

\* ------------------------------------------------------------- two servers
\* Two servers built by make_server in one process. Each has its own Handler class
\* (line 361); an attribute a Handler class does not have itself is looked up on
\* RequestHandler (lines 47-56).
ServerIds == {1, 2}
TwoMaxRequests == 3
NoHandlers == [s \in ServerIds |-> [pc |-> "idle", own |-> <<>>, requests |-> 0]]

\* type(self).log_seq read on the Handler class of server s: its own attribute once it
\* was assigned, else RequestHandler.log_seq (line 56)
ClassLogSeq(s) == IF handlers[s].own = <<>> THEN log_seq ELSE handlers[s].own[1]

\* type(self).logs on the Handler class of server s: no Handler class is ever
\* assigned a logs attribute, so it is RequestHandler.logs (line 54)
ClassLogs(s) == logs

HandlersUnchanged ==
  /\ UNCHANGED <<pc, ncalls, counterVars, limiterVars, inflightVars, serverVars>>
  /\ UNCHANGED <<log_seq, maxlen, written, asked, items>>
  /\ UNCHANGED <<test_pc, test_calling, test_i, allowed1, sixth, allowed2, sleep_start, page, poll, lat, objs, overlap>>

\* do_GET of server s reaches a call of _log (lines 95 and 133)
TwoDoGet(s) ==
  /\ handlers[s].pc = "idle" /\ handlers[s].requests < TwoMaxRequests
  /\ handlers' = [handlers EXCEPT ![s].pc = "log", ![s].requests = @ + 1]
  /\ UNCHANGED <<logs, logs_lock>>
  /\ HandlersUnchanged

\* _log, line 337: type(self).logs_lock is RequestHandler.logs_lock (line 55)
TwoLogAcquire(s) ==
  /\ handlers[s].pc = "log"
  /\ LogsLockAvailable
  /\ logs_lock' = s
  /\ handlers' = [handlers EXCEPT ![s].pc = "log_inc"]
  /\ UNCHANGED logs
  /\ HandlersUnchanged

\* _log, line 338: type(self).log_seq += 1 reads the attribute through the class and
\* assigns it on the Handler class
TwoLogIncSeq(s) ==
  /\ handlers[s].pc = "log_inc"
  /\ handlers' = [handlers EXCEPT ![s].own = <<ClassLogSeq(s) + 1>>, ![s].pc = "log_locked"]
  /\ UNCHANGED <<logs, logs_lock>>
  /\ HandlersUnchanged

\* _log, lines 339-350: the entry (`server` and `request` are history: the server and
\* the request the entry was written for) is appended to type(self).logs
TwoLogBody(s) ==
  /\ handlers[s].pc = "log_locked"
  /\ logs' = DequeAppend(ClassLogs(s),
                         [id |-> ClassLogSeq(s), server |-> s, request |-> handlers[s].requests])
  /\ logs_lock' = NoThread
  /\ handlers' = [handlers EXCEPT ![s].pc = "idle"]
  /\ HandlersUnchanged

InitTestVars ==
  /\ test_pc = "first"
  /\ test_calling = FALSE
  /\ test_i = 0
  /\ allowed1 = 0
  /\ sixth = FALSE
  /\ allowed2 = 0
  /\ sleep_start = 0
  /\ poll = NoPoll
  /\ overlap = NoOverlap
  /\ handlers = NoHandlers

InitTestState == InitTestVars /\ page = NoPage /\ lat = NoLat /\ objs = NoObjs

\* No server: the components are used on their own.
InitNoServer ==
  /\ startup = "init"
  /\ cfg = Cfg(BaseRps, 1, "locked", "threaded")
  /\ clients = {}
  /\ maxlen = LogCapacity

\* NaiveCounter() or LockedCounter(), used by the workers of test_counter.py
InitCounter ==
  /\ InitThreads /\ InitCounterState /\ InitLimiterState /\ InitHandlerState
  /\ InitTestState /\ InitNoServer
  /\ counter_mode \in {"naive", "locked"}
  /\ limiter = NoLimiter

NextCounter ==
  \E t \in Threads :
    \/ \E k \in CounterKeys : CallInc(t, k)
    \/ CallSnapshot(t)
    \/ CallReset(t)
    \/ CounterStep(t)

SpecCounter == InitCounter /\ [][NextCounter]_vars

\* NaiveCounter() or LockedCounter() under the same calls, with the overlaps recorded
NextSequential ==
  \E t \in Threads :
    \/ \E k \in CounterKeys : SeqCallInc(t, k)
    \/ SeqCallSnapshot(t)
    \/ SeqCallReset(t)
    \/ CounterStep(t)

SpecSequential == InitCounter /\ [][NextSequential]_vars

\* RateLimiter(rps, burst), called by concurrent threads
InitLimiter ==
  /\ InitThreads /\ InitCounterState /\ InitLimiterState /\ InitHandlerState
  /\ InitTestState /\ InitNoServer
  /\ counter_mode = "none"
  /\ limiter \in {NewLimiter(c[1], c[2]) : c \in {x \in LimiterCfgs : RateLimiterInitOk(x[1], x[2])}}

NextLimiter ==
  \/ Tick
  \/ \E t \in Threads :
       \/ \E k \in Ips : CallAllow(t, k)
       \/ LimiterStep(t)

SpecLimiter == InitLimiter /\ [][NextLimiter]_vars

\* rl = RateLimiter(rps=5.0, burst=...) of test_token_bucket_allows_rate
InitTest ==
  /\ InitThreads /\ InitCounterState /\ InitLimiterState /\ InitHandlerState
  /\ InitTestState /\ InitNoServer
  /\ counter_mode = "none"
  /\ limiter \in {NewLimiter(BaseRps, b) : b \in {x \in TestBursts : RateLimiterInitOk(BaseRps, x)}}

NextTest ==
  \/ TestCall
  \/ LimiterStep(MainThread)
  \/ TestCollect
  \/ TestWake
  \/ TestTick

SpecLimiterTest == InitTest /\ [][NextTest]_vars

\* The inflight tracker of RequestHandler, called by concurrent threads
InitInflight ==
  /\ InitThreads /\ InitCounterState /\ InitLimiterState /\ InitHandlerState
  /\ InitTestState /\ InitNoServer
  /\ counter_mode = "none"
  /\ limiter = NoLimiter

NextInflight ==
  \E t \in Threads :
    \/ CallInflightInc(t)
    \/ CallInflightDec(t)
    \/ CallInflightPeek(t)
    \/ InflightStep(t)

SpecInflight == InitInflight /\ [][NextInflight]_vars

\* The request log of RequestHandler, written by concurrent threads
InitLog ==
  /\ InitThreads /\ InitCounterState /\ InitLimiterState /\ InitHandlerState
  /\ InitTestState /\ InitNoServer
  /\ counter_mode = "none"
  /\ limiter = NoLimiter

NextLog ==
  \E t \in Threads :
    \/ \E st \in LogStatuses : CallLog(t, st)
    \/ LogStep(t)

SpecLog == InitLog /\ [][NextLog]_vars

\* The request log with the capacity of the program, written and read by one thread
LogMaxLen == 1000

InitLogBuffer ==
  /\ InitThreads /\ InitCounterState /\ InitLimiterState /\ InitHandlerState
  /\ InitTestState
  /\ startup = "init"
  /\ cfg = Cfg(BaseRps, 1, "locked", "threaded")
  /\ clients = {}
  /\ maxlen = LogMaxLen
  /\ counter_mode = "none"
  /\ limiter = NoLimiter

NextLogBuffer ==
  \/ \E n \in BurstSizes : WriteLogs(MainThread, n)
  \/ AskLogs(MainThread)
  \/ ApiLogsSelect(MainThread)
  \/ ApiLogsSend(MainThread)

SpecLogBuffer == InitLogBuffer /\ [][NextLogBuffer]_vars

\* The request log written by the server's threads while a client polls it
PollMaxLen == 2

InitPoll ==
  /\ InitThreads /\ InitCounterState /\ InitLimiterState /\ InitHandlerState
  /\ InitTestState
  /\ startup = "init"
  /\ cfg = Cfg(BaseRps, 1, "locked", "threaded")
  /\ clients = {}
  /\ maxlen = PollMaxLen
  /\ counter_mode = "none"
  /\ limiter = NoLimiter

NextPoll ==
  \E t \in Threads :
    \/ \E st \in LogStatuses : CallLog(t, st)
    \/ LogStep(t)
    \/ PollAsk(t)
    \/ ApiLogsSelect(t)
    \/ PollReceive(t)

SpecPoll == InitPoll /\ [][NextPoll]_vars

\* _serve_custom_index on a directory-style path with a snapshot of the counter
InitListing ==
  /\ InitThreads /\ InitCounterState /\ InitLimiterState /\ InitHandlerState
  /\ InitTestVars /\ InitNoServer
  /\ lat = NoLat /\ objs = NoObjs
  /\ counter_mode = "none"
  /\ limiter = NoLimiter
  /\ page \in {[NoPage EXCEPT !.path = p, !.counts = c] : p \in SlashPaths, c \in Snapshots}

NextListing == \E readable \in BOOLEAN : ServeCustomIndex(readable)

SpecListing == InitListing /\ [][NextListing]_vars

\* do_GET, lines 63-68, for requests with and without an X-Forwarded-For header, on
\* servers that trust the header (TRUST_XFF set, line 44) and servers that do not
InitKey ==
  /\ InitThreads /\ InitCounterState /\ InitLimiterState /\ InitHandlerState
  /\ InitTestState
  /\ startup = "serving"
  /\ cfg \in {[Cfg(BaseRps, 1, "locked", "threaded") EXCEPT !.trust_xff = b] : b \in BOOLEAN}
  /\ clients = {}
  /\ maxlen = LogCapacity
  /\ counter_mode = "none"
  /\ limiter = NoLimiter

NextKey ==
  \/ \E r \in KeyRequests : DoGetResolveKey(MainThread, r)
  \/ DoGetKeyDone(MainThread)

SpecKey == InitKey /\ [][NextKey]_vars

\* A NaiveCounter or a LockedCounter and callers that keep and change the dicts that
\* snapshot() returned, one call at a time
InitObjects ==
  /\ InitThreads /\ InitCounterState /\ InitLimiterState /\ InitHandlerState
  /\ InitTestVars /\ InitNoServer
  /\ page = NoPage /\ lat = NoLat
  /\ counter_mode \in {"naive", "locked"}
  /\ limiter = NoLimiter
  /\ objs = NewObjs

NextObjects ==
  \/ \E k \in CounterKeys : ObjInc(k) /\ ObjUnchanged
  \/ \E t \in Threads : ObjSnapshot(t) /\ ObjUnchanged
  \/ ObjReset /\ ObjUnchanged
  \/ \E t \in Threads, k \in CounterKeys, v \in {0, 1} : ObjMutate(t, k, v) /\ ObjUnchanged

SpecObjects == InitObjects /\ [][NextObjects]_vars

\* Two servers of one process, each handling requests that are logged
InitTwoServers ==
  /\ InitThreads /\ InitCounterState /\ InitLimiterState /\ InitHandlerState
  /\ InitTestState /\ InitNoServer
  /\ counter_mode = "none"
  /\ limiter = NoLimiter

NextTwoServers ==
  \/ \E s \in ServerIds : TwoDoGet(s)
  \/ \E s \in ServerIds : TwoLogAcquire(s)
  \/ \E s \in ServerIds : TwoLogIncSeq(s)
  \/ \E s \in ServerIds : TwoLogBody(s)

SpecTwoServers == InitTwoServers /\ [][NextTwoServers]_vars

\* test_concurrent_requests of lab_test.py against a single-worker or a worker-pool
\* server
InitLatency ==
  /\ InitThreads /\ InitCounterState /\ InitLimiterState /\ InitHandlerState
  /\ InitTestVars /\ InitNoServer
  /\ page = NoPage
  /\ counter_mode = "none"
  /\ limiter = NoLimiter
  /\ objs = NoObjs
  /\ lat \in {[server |-> sv, clock |-> 0, state |-> [i \in LatIds |-> "sent"],
                wake |-> [i \in LatIds |-> 0], finished |-> 0] : sv \in {"single", "threaded"}}

NextLatency ==
  \/ \E i \in LatIds : (LatAccept(i) /\ LatUnchanged) \/ (LatFinish(i) /\ LatUnchanged)
  \/ LatTick /\ LatUnchanged

SpecLatency == InitLatency /\ [][NextLatency]_vars

\* main: Config(), make_server, serve_forever
InitServer ==
  /\ InitThreads /\ InitCounterState /\ InitLimiterState /\ InitHandlerState
  /\ InitTestState
  /\ startup = "init"
  /\ cfg \in ServerCfgs
  /\ clients \in ClientSets
  /\ maxlen = LogCapacity
  /\ counter_mode = "none"
  /\ limiter = NoLimiter

NextServer ==
  \/ MakeServer
  \/ Tick
  \/ \E t \in Threads :
       \/ DoGetStep(t)
       \/ CounterStep(t)
       \/ LimiterStep(t)
       \/ InflightStep(t)
       \/ LogStep(t)

SpecServer == InitServer /\ [][NextServer]_vars

\* ------------------------------------------------------------- claims: counters
Quiescent == \A t \in Threads : pc[t] = "idle"

\* C1: LockedCounter: once N inc(key) calls on a key have all returned, in any
\* interleaving and with no reset, the stored count of the key is exactly N.
C1_LockedCountExact ==
  (counter_mode = "locked" /\ ~resetSeen /\ Quiescent)
    => \A k \in CounterKeys : Get(counts, k) = incDone[k]

C1_Witness ==
  /\ counter_mode = "locked" /\ ~resetSeen /\ Quiescent
  /\ incDone["/foo"] = 3 /\ Get(counts, "/foo") = 3

\* C2: NaiveCounter permits lost updates: whenever an inc(key) writes after another
\* write to the key landed between its read and its write, the stored count is
\* strictly below the number of inc(key) calls that returned; such a run exists
\* for N >= 2 (the witness).
C2_NaiveLosesUpdate ==
  (counter_mode = "naive" /\ ~resetSeen)
    => \A k \in CounterKeys : stale[k] => Get(counts, k) < incDone[k]

C2_Witness ==
  /\ counter_mode = "naive" /\ ~resetSeen /\ Quiescent
  /\ incDone["/foo"] >= 2 /\ Get(counts, "/foo") < incDone["/foo"]

\* C3: NaiveCounter: once N >= 1 inc(key) calls have all returned, with no reset,
\* the stored count c satisfies 1 <= c <= N.
C3_NaiveBound ==
  (counter_mode = "naive" /\ ~resetSeen /\ Quiescent)
    => \A k \in CounterKeys :
         incDone[k] >= 1 => (1 <= Get(counts, k) /\ Get(counts, k) <= incDone[k])

C3_Witness ==
  /\ counter_mode = "naive" /\ ~resetSeen /\ Quiescent
  /\ incDone["/foo"] = 3 /\ Get(counts, "/foo") = 1

\* ------------------------------------------------------------- claims: rate limiter
\* C4: in every reachable state every bucket satisfies 0 <= tokens <= burst.
C4_BucketInvariant ==
  \A k \in DOMAIN buckets : 0 <= buckets[k].tokens /\ buckets[k].tokens <= limiter.burst

C4_Witness ==
  \E k \in DOMAIN buckets :
    /\ buckets[k].tokens = limiter.burst - OneToken /\ admitted[k] >= 2 /\ refilled[k] >= 1
    /\ \E j \in DOMAIN buckets : j # k /\ buckets[j].tokens = 0 /\ admitted[j] >= 1

\* The step of thread t that runs the body of allow under the lock.
AllowReturns(t) == pc[t] = "allow_locked" /\ pc'[t] # "allow_locked"

\* C5 (as claimed): every allow call sets tokens = min(burst, tokens + elapsed * rate)
\* and last_refill = now, then returns true and takes one token if the refilled
\* tokens >= 1, and otherwise returns false and leaves the refilled tokens.
C5_RefillOnEveryCall ==
  [][\A t \in Threads : AllowReturns(t) =>
       LET k == ip[t]
           pre == IF k \in DOMAIN buckets THEN buckets[k]
                  ELSE [tokens |-> limiter.burst, last_refill |-> now[t]]
           elapsed == now[t] - pre.last_refill
           full == Min(limiter.burst, pre.tokens + Accrued(elapsed, limiter.rps))
       IN /\ buckets'[k].last_refill = now[t]
          /\ IF full >= OneToken
             THEN ret'[t] = TRUE /\ buckets'[k].tokens = full - OneToken
             ELSE ret'[t] = FALSE /\ buckets'[k].tokens = full]_vars

\* C5 (amended): allow refills (tokens = min(burst, tokens + elapsed * rate),
\* last_refill = now) only when elapsed > 0; when elapsed <= 0 the refill step leaves
\* tokens and last_refill as they are.  It then returns true and takes exactly one
\* token if tokens >= 1, and otherwise returns false and leaves tokens unchanged.
C5_RefillWhenElapsedPositive ==
  [][\A t \in Threads : AllowReturns(t) =>
       LET k == ip[t]
           pre == IF k \in DOMAIN buckets THEN buckets[k]
                  ELSE [tokens |-> limiter.burst, last_refill |-> now[t]]
           elapsed == now[t] - pre.last_refill
           full == IF elapsed > 0
                   THEN Min(limiter.burst, pre.tokens + Accrued(elapsed, limiter.rps))
                   ELSE pre.tokens
           last == IF elapsed > 0 THEN now[t] ELSE pre.last_refill
       IN /\ buckets'[k].last_refill = last
          /\ IF full >= OneToken
             THEN ret'[t] = TRUE /\ buckets'[k].tokens = full - OneToken
             ELSE ret'[t] = FALSE /\ buckets'[k].tokens = full]_vars

\* A call whose clock reading was older than the bucket's last refill has returned,
\* and some call was rejected with a fraction of a token left in the bucket.
C5_Witness ==
  /\ skewSeen
  /\ \E t \in Threads : pc[t] = "idle" /\ ret[t] = FALSE
  /\ \E k \in DOMAIN buckets : 0 < buckets[k].tokens /\ buckets[k].tokens < OneToken

\* C6: no double charge and no double refill: for every bucket, created at time t0,
\* the tokens it holds are the burst plus the refills minus exactly one token per
\* admitted call, the refills never exceed rate * (last_refill - t0), and so the
\* calls admitted up to any time t are at most burst + rate * (t - t0).
C6_NoDoubleChargeOrRefill ==
  \A k \in DOMAIN buckets :
    /\ buckets[k].tokens = limiter.burst + refilled[k] - OneToken * admitted[k]
    /\ refilled[k] <= Accrued(buckets[k].last_refill - created[k], limiter.rps)
    /\ buckets[k].last_refill <= clock
    /\ OneToken * admitted[k] <= limiter.burst + Accrued(clock - created[k], limiter.rps)

\* Two calls on one key are in flight at once, one holding the lock and one waiting
\* with a later clock reading, after the key has used its burst and a refill.
C6_Witness ==
  \E k \in DOMAIN buckets : \E t1, t2 \in Threads :
    /\ admitted[k] * OneToken > limiter.burst /\ refilled[k] > 0
    /\ pc[t1] = "allow_locked" /\ pc[t2] = "allow_wait"
    /\ ip[t1] = k /\ ip[t2] = k /\ now[t1] < now[t2]

\* C7: on a fresh key the first `burst` calls made with no time elapsed return true
\* and the next immediate call returns false; with rate 5 and burst 5, after a wait
\* of at least one second at least 4 of the next 5 calls return true.
C7_BurstThenRefill ==
  /\ (test_pc # "first") => allowed1 * OneToken = limiter.burst
  /\ (test_pc \in {"sleep", "second", "done"}) => sixth = FALSE
  /\ (test_pc = "done" /\ limiter = NewLimiter(BaseRps, TestBurst)) => allowed2 >= 4

C7_Witness ==
  /\ test_pc = "done" /\ limiter = NewLimiter(BaseRps, TestBurst)
  /\ allowed1 = TestBurst /\ sixth = FALSE /\ allowed2 >= 4

\* ------------------------------------------------------------- claims: startup
\* C8: a RateLimiter with rps <= 0 or burst <= 0 is never constructed (ValueError), so
\* make_server fails before a server exists: with such a configuration no limiter is
\* ever bound, the server never serves, and no request is ever handled.
C8_InvalidConfigNeverServes ==
  (cfg.rps <= 0 \/ cfg.burst <= 0) =>
    /\ limiter = NoLimiter
    /\ startup # "serving"
    /\ \A t \in Threads : ~Handling(t) /\ pc[t] = "idle"
    /\ log_seq = 0

C8_Witness ==
  /\ startup = "config_error"
  /\ cfg.rps <= 0 \/ cfg.burst <= 0
  /\ limiter = NoLimiter

\* ------------------------------------------------------------- claims: inflight
InflightLockedPcs == {"infl_inc_locked", "infl_dec_locked", "peek_locked"}

\* C9: the inflight value is never negative (a decrement at 0 leaves it 0), and at most
\* one thread at a time is inside _inflight_inc, _inflight_dec or _inflight_peek, the
\* one that owns inflight_lock.
C9_InflightNeverNegative ==
  /\ inflight >= 0
  /\ \A t, u \in Threads :
       (pc[t] \in InflightLockedPcs /\ pc[u] \in InflightLockedPcs) => t = u
  /\ \A t \in Threads : pc[t] \in InflightLockedPcs <=> inflight_lock = t

C9_Witness ==
  /\ clamped /\ inflight = 0
  /\ \E t, u \in Threads :
       t # u /\ pc[t] \in InflightLockedPcs /\ pc[u] \in {"infl_inc", "infl_dec", "peek"}

\* The admitted requests that have started processing (their _inflight_inc is done) and
\* have not completed (their _inflight_dec is not done).
Processing ==
  { t \in Threads :
      /\ Handling(t)
      /\ loc[t].stage \in {"try", "except", "finally"}
      /\ pc[t] \notin {"infl_inc", "infl_inc_locked", "finish"} }

\* C10: on one server the inflight value is at all times the number of admitted requests
\* that have started processing and not yet completed, whatever way their handling ends;
\* a peek, which reads the value under the lock, therefore returns N while N requests
\* are processing.
C10_InflightCountsProcessing == inflight = Cardinality(Processing)

C10_Witness ==
  /\ Cardinality(Processing) = NumThreads
  /\ inflight = NumThreads
  /\ log_seq = 0
  /\ \E t \in Threads : pc[t] = "log" /\ infl[t] = NumThreads /\ loc[t].exc

\* ------------------------------------------------------------- claims: the request pipeline
\* How often a step occurs in the history of a request.
Count(sq, e) == Cardinality({i \in DOMAIN sq : sq[i] = e})

Admitted(t) == Handling(t) /\ Count(trace[t], "infl_inc") = 1

Failed(t) == Handling(t) /\ loc[t].exc

\* C11: no inflight leak. A request decrements inflight at most once and only after it
\* incremented it; a request that incremented it has decremented it exactly once when
\* its handling ends, whether it returned or raised; and when no request is in
\* progress inflight is 0.
C11_NoInflightLeak ==
  /\ \A t \in Threads :
       /\ Count(trace[t], "infl_dec") <= Count(trace[t], "infl_inc")
       /\ Count(trace[t], "infl_inc") <= 1
       /\ (pc[t] = "finish" /\ Admitted(t)) => Count(trace[t], "infl_dec") = 1
  /\ (\A t \in Threads : ~Handling(t)) => inflight = 0

C11_Witness ==
  /\ \E t \in Threads : pc[t] = "finish" /\ Admitted(t) /\ Failed(t)
                           /\ Count(trace[t], "infl_dec") = 1
  /\ \E t \in Threads : pc[t] = "finish" /\ Admitted(t) /\ ~Failed(t)
                           /\ Count(trace[t], "infl_dec") = 1
  /\ inflight = 0

\* C12: every admitted request appends exactly one log entry, whether its handling
\* returns or raises: at the end of its handling its history holds one _log.
C12_ExactlyOneLogEntry ==
  \A t \in Threads : (pc[t] = "finish" /\ Admitted(t)) => Count(trace[t], "log") = 1

\* _log returns to do_GET
LogReturns(t) == pc[t] = "log_locked" /\ pc'[t] # "log_locked"

\* C13: every log entry appended for an admitted request whose handling raised carries
\* the status 499, whether or not a status line had been sent.
C13_FailedRequestLogs499 ==
  [][\A t \in Threads :
       (LogReturns(t) /\ Admitted(t) /\ Failed(t)) => logs'[Len(logs')].status = 499]_vars

\* The limiter has refused the request of thread t.
Denied(t) == Handling(t) /\ Count(trace[t], "allow") = 1 /\ ~ret[t]

\* Thread t takes the step.
StepOf(t) == pc'[t] # pc[t]

PipelineOrder == <<"allow", "infl_inc", "delay", "count", "respond", "log", "infl_dec">>
Rank(e) == CHOOSE i \in DOMAIN PipelineOrder : PipelineOrder[i] = e

IsAdmin(t) == IsCountsTarget(req[t].target) \/ IsApiTarget(req[t].target)

\* C15: a request that is not administrative calls allow once, first, with its client
\* key; the steps it then takes follow the order inflight increment, delay, counter
\* increment, response, log append, inflight decrement (none but the log append more than
\* once), an admitted request takes them all, a refused one only answers and logs; and
\* the answer is 429 exactly when allow returned False.
C15_PipelineOrder ==
  \A t \in Threads : (Handling(t) /\ ~IsAdmin(t)) =>
    LET tr == trace[t] IN
    /\ \A i, j \in DOMAIN tr :
         i < j => \/ Rank(tr[i]) < Rank(tr[j])
                  \/ tr[i] = "log" /\ tr[j] = "log"
    /\ tr # <<>> => tr[1] = "allow"
    /\ pc[t] \in {"allow_wait", "allow_locked"} => (tr = <<>> /\ ip[t] = ClientKey(req[t]))
    /\ Count(tr, "respond") = 1 => (loc[t].status = 429 <=> Denied(t))
    /\ (pc[t] = "finish" /\ ret[t]) => \A i \in DOMAIN PipelineOrder : Count(tr, PipelineOrder[i]) >= 1
    /\ (pc[t] = "finish" /\ ~ret[t]) => tr = <<"allow", "respond", "log">>

C15_Witness ==
  \E t, u \in Threads :
    /\ t # u /\ ~IsAdmin(t) /\ ~IsAdmin(u)
    /\ pc[t] = "finish" /\ ret[t] /\ ~Failed(t) /\ trace[t] = PipelineOrder
    /\ loc[t].status = 200
    /\ pc[u] = "finish" /\ Denied(u) /\ loc[u].status = 429

\* The request of thread t asks for /__counts or for a path under /api/.
IsAdminPath(t) == Handling(t) /\ req[t].target.path \in ApiPaths \cup {"/__counts"}

\* C16: no step of the handling of an administrative request calls the limiter,
\* increments the resource counter, changes inflight or sleeps the delay, and the
\* request is answered by _handle_api or the /__counts branch, never with 429,
\* whatever the state of its client's bucket. (The requests an /api/fire handler sends
\* to the server are requests of their own and take the ordinary path.)
C16_AdminBypass ==
  [][\A t \in Threads :
       ((IsAdminPath(t) \/ IsAdminPath(t)') /\ StepOf(t)) =>
         /\ pc'[t] \notin {"allow_wait", "allow_locked", "sleeping", "inc", "inc_sleep",
                           "inc_locked", "infl_inc", "infl_dec", "log"}
         /\ buckets' = buckets /\ admitted' = admitted
         /\ \A k \in Keys : incDone'[k] <= incDone[k] /\ Get(counts', k) <= Get(counts, k)
         /\ inflight' = inflight
         /\ trace'[t] = <<>>
         /\ IsAdminPath(t)' => loc'[t].status \in {200, 404}]_vars

C16_Witness ==
  \E t \in Threads :
    /\ IsAdminPath(t) /\ pc[t] = "finish" /\ loc[t].status = 200
    /\ ClientKey(req[t]) \in DOMAIN buckets
    /\ buckets[ClientKey(req[t])].tokens < OneToken
    /\ clock = buckets[ClientKey(req[t])].last_refill

\* The step adds a counter increment to the history of the request of thread t.
Counts(t) == Handling(t) /\ Count(trace'[t], "count") > Count(trace[t], "count")

\* C17: the handling of an admitted non-administrative request increments the counter
\* exactly once, and the key it increments is the path of the request without the
\* query string, so that "/" and "/?x=1" increment the same key.
C17_CountedOnceUnderPath ==
  [][\A t \in Threads :
       /\ Counts(t) =>
            /\ Count(trace'[t], "count") = 1
            /\ \A k \in Keys :
                 incDone'[k] = incDone[k] + (IF k = req[t].target.path THEN 1 ELSE 0)
       /\ (pc'[t] = "finish" /\ Admitted(t)') => Count(trace'[t], "count") = 1]_vars

C17_Witness ==
  /\ cfg.counter_mode = "locked"
  /\ incDone["/"] = 2 /\ Get(counts, "/") = 2
  /\ \E i, j \in DOMAIN logs :
       logs[i].path = Target("/", NoQuery) /\ logs[j].path = Target("/", "x=1")

\* C18: under every interleaving of _log calls the k-th entry appended carries id k,
\* so ids are unique and increase in append order, and the buffer is always in
\* strictly ascending id order.
C18_LogIdsInAppendOrder ==
  /\ \A k \in DOMAIN written : written[k].id = k
  /\ \A i \in DOMAIN logs : i < Len(logs) => logs[i].id < logs[i + 1].id

C18_Witness ==
  /\ Len(written) = MaxCalls /\ Len(logs) = maxlen /\ Len(written) > maxlen
  /\ \E k \in DOMAIN written :
       k < Len(written) /\ written[k].thread # written[k + 1].thread

\* C19: the buffer never holds more than its capacity of 1000 entries; after M appends
\* it holds exactly the min(M, 1000) most recently appended entries, in append order;
\* after the entries 1..1500 it holds exactly the entries 501..1500.
C19_BufferKeepsMostRecent ==
  LET m == Len(written)
      n == Min(m, LogMaxLen)
  IN /\ Len(logs) <= LogMaxLen
     /\ Len(logs) = n
     /\ \A i \in 1..n : logs[i] = written[m - n + i]
     /\ m = 1500 => \A i \in 1..1000 : logs[i].id = 500 + i

C19_Witness ==
  /\ Len(written) = 1500 /\ Len(logs) = 1000
  /\ logs[1].id = 501 /\ logs[1000].id = 1500

\* The list an /api/logs request is answered with has been selected.
Answered == asked # NoQuestion /\ pc[MainThread] = "logs_send"

\* since_id and limit as the request gives them: the number when the parameter is an
\* integer, else 0 and 100
SinceId == QueryInt(asked[1].since, 0)
Limit == QueryInt(asked[1].last, 100)

\* C20: with since_id > 0 the answer of /api/logs is exactly the retained entries whose
\* id is greater than since_id, in ascending order, whatever the limit; otherwise it is
\* the min(limit', size) most recent retained entries in ascending order, where limit'
\* is the limit clamped to [1, 500] and the limit is 100 when absent or unparsable.
C20_ApiLogsSelection ==
  Answered =>
    IF SinceId > 0
    THEN /\ {items[i] : i \in DOMAIN items} = {logs[i] : i \in {j \in DOMAIN logs : logs[j].id > SinceId}}
         /\ \A i \in DOMAIN items : i < Len(items) => items[i].id < items[i + 1].id
    ELSE LET lim == IF Limit < 1 THEN 1 ELSE IF Limit > 500 THEN 500 ELSE Limit
             n == Min(lim, Len(logs))
         IN /\ Len(items) = n
            /\ \A i \in 1..n : items[i] = logs[Len(logs) - n + i]

C20_Witness ==
  /\ Answered /\ Len(logs) = 1000
  /\ asked[1].since = <<"a", "b", "c">> /\ asked[1].last = <<"5", "0", "1">>
  /\ Len(items) = 500 /\ items[1].id = logs[501].id

\* C21: a client that polls /api/logs with since set to the largest id it has received
\* has received, as long as fewer entries than the buffer holds were appended between
\* any two of its polls, exactly the entries appended after the id it began with, each
\* once and in ascending id order, whatever the interleaving with the writers.
C21_LosslessPolling ==
  ~poll.overrun => poll.got = SubSeq(written, poll.base + 1, poll.last_id)

C21_Witness ==
  /\ ~poll.overrun /\ poll.base = 1 /\ poll.last_id = MaxCalls
  /\ Len(poll.got) = MaxCalls - 1 /\ Len(poll.got) > maxlen

\* C21: when a whole buffer of entries is appended between two polls, entries are lost.
C21_OverrunLoses ==
  poll.overrun /\ Len(poll.got) < poll.last_id - poll.base

\* C22: the listing answered for a directory-style path P names the entries of the
\* directory P of the document root, and gives for each entry E (a directory with a
\* trailing slash) the snapshot's count under the key P + E, 0 when absent.
C22_ListingOfRequestedDirectory ==
  page.status = 200 =>
    LET its == DirEntries(page.path)
    IN /\ Len(page.links) = Len(its)
       /\ \A i \in DOMAIN its :
            LET E == its[i].name \o (IF its[i].isdir THEN "/" ELSE "")
            IN /\ page.links[i].text = E
               /\ page.links[i].count = Get(page.counts, page.path \o E)

\* C23: on the single-worker server at most one request is being handled at any time,
\* so inflight is at most 1, and the log entries are appended in the order in which
\* their requests were accepted.
C23_SingleWorkerSequential ==
  (startup = "serving" /\ cfg.server_type = "single") =>
    /\ Cardinality({t \in Threads : Handling(t)}) <= 1
    /\ inflight <= 1
    /\ \A i, j \in DOMAIN written : i < j => written[i].request <= written[j].request

C23_Witness ==
  /\ startup = "serving" /\ cfg.server_type = "single"
  /\ ncalls = MaxRequests /\ inflight = 1
  /\ written # <<>> /\ written[1].request = 1
  /\ \E t \in Threads : Handling(t) /\ req[t].n = MaxRequests

\* The locks thread t holds.
LocksHeld(t) ==
  {l \in {"counter", "limiter", "inflight", "logs"} :
     \/ l = "counter" /\ counter_lock = t
     \/ l = "limiter" /\ limiter_lock = t
     \/ l = "inflight" /\ inflight_lock = t
     \/ l = "logs" /\ logs_lock = t}

\* C24: on the worker-pool server a worker that sleeps its delay holds no lock, so the
\* other workers go on; all the admitted requests can be asleep at once, each counted
\* in inflight.
C24_SleepHoldsNoLock ==
  \A t \in Threads : pc[t] = "sleeping" => LocksHeld(t) = {}

C24_Witness ==
  /\ cfg.server_type = "threaded"
  /\ \A t \in Threads : Handling(t) /\ pc[t] = "sleeping"
  /\ inflight = NumThreads

\* Every request of the test has been answered.
LatDone == lat.server # "none" /\ \A i \in LatIds : lat.state[i] = "done"

\* C25: in logical time, with delay d and N = 10 requests submitted at once and all
\* admitted, the single-worker server answers the last one no earlier than N * d, and
\* the worker-pool server answers all of them between d and 2d, more than 3 times
\* sooner than N * d.
C25_Latency ==
  LatDone =>
    IF lat.server = "single"
    THEN lat.finished >= LatRequests * LatDelay
    ELSE /\ LatDelay <= lat.finished /\ lat.finished <= 2 * LatDelay
         /\ 3 * lat.finished < LatRequests * LatDelay

C25_Witness ==
  LatDone /\ lat.server = "threaded" /\ lat.finished = LatDelay

\* A step of some request handler of the server (time passing is not one).
ServerStep ==
  \E u \in Threads :
    DoGetStep(u) \/ CounterStep(u) \/ LimiterStep(u) \/ InflightStep(u) \/ LogStep(u)

\* C26: in both kinds of server an /api/fire handler that waits for its n fetches can
\* get them answered: ok stays between 0 and n, and while a fetch has not been accepted
\* (and a request and a thread are left within the bounds) the server can take a step.
C26_FireResponds ==
  \A t \in Threads :
    pc[t] = "fire_wait" =>
      /\ 0 <= loc[t].oks /\ loc[t].oks + loc[t].left <= FireN(req[t].target.query)
      /\ (loc[t].unsent > 0 /\ ncalls < MaxRequests /\ (\E u \in Threads : ~Handling(u)))
           => ENABLED ServerStep

\* C27: for both counters, the dict snapshot() returned changes only by its holder's own
\* writes (later inc and reset calls leave it alone), those writes do not change the
\* counter, and a snapshot taken after reset() with no inc since is empty.
C27_SnapshotIsIndependentCopy ==
  objs.heap # <<>> =>
    /\ objs.heap[CountsObj] = objs.shadow
    /\ \A t \in Threads :
         objs.has[t] =>
           /\ objs.heap[objs.ref[t]] = objs.expect[t]
           /\ objs.takenFresh[t] => objs.taken[t] = EmptyDict

C27_Witness ==
  /\ objs.heap # <<>>
  /\ \E t \in Threads :
       /\ objs.has[t] /\ objs.takenFresh[t]
       /\ objs.heap[objs.ref[t]] # EmptyDict
       /\ objs.shadow # EmptyDict
       /\ objs.heap[objs.ref[t]] # objs.heap[CountsObj]

\* The log entries appended for the request of thread t.
EntriesOf(t) == {i \in DOMAIN written : written[i].request = req[t].n}

\* The locks thread t may hold where it is: each only inside its `with` block.
LocksAt(t) ==
  IF pc[t] \in {"inc_locked", "snapshot_locked", "reset_locked"} THEN {"counter"}
  ELSE IF pc[t] = "allow_locked" THEN {"limiter"}
  ELSE IF pc[t] \in InflightLockedPcs THEN {"inflight"}
  ELSE IF pc[t] \in {"log_inc", "log_locked", "logs_locked"} THEN {"logs"}
  ELSE {}

\* What a request b that did not fail has got once handled, stated without a word on
\* the other requests.
OwnResults(b) ==
  /\ IF ret[b] THEN trace[b] = PipelineOrder ELSE trace[b] = <<"allow", "respond", "log">>
  /\ loc[b].status = 429 <=> ~ret[b]
  /\ Cardinality(EntriesOf(b)) = 1
  /\ \A i \in EntriesOf(b) :
       /\ written[i].ip = ClientKey(req[b]) /\ written[i].path = req[b].target
       /\ written[i].status = loc[b].status /\ written[i].thread = b
  /\ counter_mode = "locked" => Get(counts, UrlPath(req[b].target)) = incDone[UrlPath(req[b].target)]

InCounterLock == {t \in Threads : pc[t] \in {"inc_locked", "snapshot_locked", "reset_locked"}}

\* C29: LockedCounter is linearizable, each call taking effect inside its `with` block:
\* at most one thread is inside such a block, the dict a snapshot() copies holds for
\* every key the number of inc calls completed since the last reset, and when no call
\* is in progress that number is the count of the key.
C29_LockedCounterLinearizable ==
  [][counter_mode = "locked" =>
       /\ Cardinality(InCounterLock') <= 1
       /\ \A t \in Threads :
            (pc[t] = "snapshot_locked" /\ pc'[t] # "snapshot_locked") =>
              /\ InCounterLock = {t}
              /\ \A k \in Keys : Get(snap'[t], k) = incDone[k]
              /\ snap'[t] = counts
       /\ Quiescent' => \A k \in Keys : Get(counts', k) = incDone'[k]]_vars

C29_Witness ==
  /\ counter_mode = "locked" /\ resetSeen /\ Quiescent
  /\ \E t \in Threads, k \in Keys :
       /\ Get(snap[t], k) = 1
       /\ Get(counts, k) = 0
       /\ \E j \in Keys : j # k /\ incDone[j] = 1 /\ Get(counts, j) = 1

\* The first comma-separated hop of header text x, trimmed: the pieces from i to j, where
\* no comma comes before j, the pieces before i and those from j to the first comma (or
\* the end) are blanks, and the hop neither begins nor ends with a blank.
IsTrimmedFirstHop(x, k) ==
  \E i \in 1..(Len(x) + 1), j \in 0..Len(x) :
    /\ k = Join(SubSeq(x, i, j))
    /\ \A m \in 1..j : x[m] # Comma
    /\ \A m \in 1..(i - 1) : x[m] = Blank
    /\ i <= j => (x[i] # Blank /\ x[j] # Blank)
    /\ i > j => j = i - 1
    /\ \/ \A m \in (j + 1)..Len(x) : x[m] = Blank
       \/ \E c \in (j + 1)..Len(x) : x[c] = Comma /\ \A m \in (j + 1)..(c - 1) : x[m] = Blank

\* C30: the client key of a request is the trimmed first hop of its X-Forwarded-For
\* header when the server trusts the header and the request has one that is not empty;
\* in every other case it is the peer address, whatever the header says.
C30_ClientKey ==
  \A t \in Threads :
    pc[t] = "key" =>
      IF cfg.trust_xff /\ req[t].xff # NoXff /\ req[t].xff # <<<<>>>>
      THEN IsTrimmedFirstHop(req[t].xff[1], ip[t])
      ELSE ip[t] = req[t].peer

C30_Witness ==
  \E t \in Threads :
    /\ pc[t] = "key" /\ cfg.trust_xff
    /\ req[t].xff = <<<<Blank, "9.9.9.9", Comma>>>> /\ req[t].peer = "1.2.3.4"
    /\ ip[t] = "9.9.9.9"

\* ------------------------------------------------------------- claims: frames and discipline
\* C31: buckets are per key and only added. No step removes a bucket; the buckets change
\* only in the step of the thread that holds the limiter lock and runs the body of
\* allow(k); that step leaves the bucket of every other key as it was, and on the first
\* use of k it adds the bucket of k, made with tokens = burst at the call's clock
\* reading: the call is allowed and the bucket holds burst less the token it took.
C31_BucketsPerKeyOnlyAdded ==
  [][/\ DOMAIN buckets \subseteq DOMAIN buckets'
     /\ buckets' # buckets => \E t \in Threads : AllowReturns(t) /\ limiter_lock = t
     /\ \A t \in Threads :
          AllowReturns(t) =>
            /\ limiter_lock = t
            /\ DOMAIN buckets' = DOMAIN buckets \cup {ip[t]}
            /\ \A j \in DOMAIN buckets : j # ip[t] => buckets'[j] = buckets[j]
            /\ ip[t] \notin DOMAIN buckets =>
                 /\ buckets'[ip[t]] = [tokens |-> limiter.burst - OneToken, last_refill |-> now[t]]
                 /\ ret'[t]]_vars

\* The second key gets its bucket while the first key's bucket, used and refilled,
\* stays as it is.
C31_Witness ==
  \E k, j \in DOMAIN buckets :
    /\ k # j
    /\ admitted[k] >= 2 /\ refilled[k] >= 1
    /\ admitted[j] = 1 /\ created[j] > created[k]
    /\ buckets[j] = [tokens |-> limiter.burst - OneToken, last_refill |-> created[j]]

\* The request of thread t asks for a file the document root does not hold.
Missing(t) ==
  /\ ~IsDirTarget(req[t].target)
  /\ UrlPath(req[t].target) \notin DocRootFiles \cup SlashPaths

\* The request of thread t asks for the listing of a directory that cannot be read.
Unreadable(t) == IsDirTarget(req[t].target) /\ ~loc[t].readable

C33_LastRefillMonotonic ==
  [][/\ \A k \in DOMAIN buckets :
          /\ buckets'[k].last_refill >= buckets[k].last_refill
          /\ refilled'[k] >= refilled[k]
     /\ \A t \in Threads :
          (AllowReturns(t) /\ ip[t] \in DOMAIN buckets /\ now[t] < buckets[ip[t]].last_refill) =>
            /\ buckets'[ip[t]].last_refill = buckets[ip[t]].last_refill
            /\ buckets'[ip[t]].tokens = buckets[ip[t]].tokens - (IF ret'[t] THEN OneToken ELSE 0)
            /\ refilled'[ip[t]] = refilled[ip[t]]]_vars

\* A call with an earlier clock reading has run after one with a later reading, on a
\* bucket that had been refilled.
C33_Witness ==
  /\ skewSeen
  /\ \E k \in DOMAIN buckets :
       /\ buckets[k].last_refill > created[k] /\ refilled[k] >= 1
       /\ admitted[k] >= 3

\* The steps a thread takes inside the `with` blocks and to enter them.
LockStep(u) == CounterStep(u) \/ LimiterStep(u) \/ InflightStep(u) \/ LogStep(u)

\* C34: lock discipline. A thread holds at most one of the four locks, and only inside
\* the `with` block of that lock: none while it sleeps the delay, none while it writes
\* the response, none when its handling has ended, whether it returned or raised. A
\* thread that holds a lock can always take its next step, so a thread that waits for
\* a lock is never waited for: no workers block each other for good.
C34_LockDiscipline ==
  \A t \in Threads :
    /\ Cardinality(LocksHeld(t)) <= 1
    /\ LocksHeld(t) \subseteq LocksAt(t)
    /\ pc[t] \in {"sleeping", "respond", "listing", "finish", "idle"} => LocksHeld(t) = {}
    /\ LocksHeld(t) # {} => ENABLED LockStep(t)

\* One worker is inside a `with` block while another, whose handling raised, waits
\* for that lock, and a lock has been taken and released before.
C34_Witness ==
  \E t, u \in Threads :
    /\ t # u
    /\ LocksHeld(t) = {"logs"} /\ pc[u] = "log" /\ Failed(u)
    /\ inflight = NumThreads

\* No request is being handled, or those that are have reached the end of do_GET.
AllDone == \A t \in Threads : ~Handling(t) \/ pc[t] = "finish"

\* The requests for path p that the log shows as admitted: logged with a status other
\* than 429 (a request that failed is logged twice and counted once).
AdmittedFor(p) ==
  {written[i].request : i \in {j \in DOMAIN written :
      UrlPath(written[j].path) = p /\ written[j].status # 429}}

\* C35: on the worker-pool server with the locked counter and no reset, once every
\* request is done the count of every path is the number of admitted requests for it
\* (each has slept its delay), whatever status they ended with; the rejected ones add
\* nothing.
C35_CountConservation ==
  (startup = "serving" /\ cfg.server_type = "threaded" /\ cfg.counter_mode = "locked"
     /\ ~resetSeen /\ AllDone)
    => \A p \in Keys : Get(counts, p) = Cardinality(AdmittedFor(p))

\* Two requests for one path were admitted and counted, and one of them did not end
\* with 200.
C35_Witness ==
  /\ startup = "serving" /\ cfg.server_type = "threaded" /\ cfg.counter_mode = "locked"
  /\ ~resetSeen /\ AllDone
  /\ \E p \in Keys :
       /\ Get(counts, p) = 2 /\ Cardinality(AdmittedFor(p)) = 2
       /\ \E i \in DOMAIN written : written[i].status \notin {200, 429}

\* snapshot() returns to its caller t.
SnapshotReturns(t) == pc[t] \in {"snapshot", "snapshot_locked"} /\ pc'[t] = "idle"

\* What a LockedCounter shows for the calls made: a snapshot holds for every key the
\* number of inc calls completed since the last reset, and so does the counter when no
\* call is in progress (C29).
ShowsExactCounts ==
  /\ \A t \in Threads :
       SnapshotReturns(t) => \A k \in Keys : Get(snap'[t], k) = incDone[k]
  /\ Quiescent' => \A k \in Keys : Get(counts', k) = incDone'[k]

\* C36 (as claimed): in every run in which no two inc calls overlap, NaiveCounter and
\* LockedCounter show the same: every snapshot and the final counts are those of the
\* LockedCounter.
C36_EquivalentUnlessIncsOverlap ==
  [][~overlap'.inc => ShowsExactCounts]_vars

\* C36 (amended): in every run in which no two calls overlap, NaiveCounter and
\* LockedCounter show the same: every snapshot and the final counts are those of the
\* LockedCounter.
C36_EquivalentWhenSequential ==
  [][~overlap'.any => ShowsExactCounts]_vars

\* The naive counter, called strictly sequentially: inc, snapshot, reset, inc.
C36_Witness ==
  /\ counter_mode = "naive" /\ ~overlap.any /\ Quiescent /\ resetSeen
  /\ \E t \in Threads, k \in Keys :
       /\ Get(snap[t], k) = 1
       /\ Get(counts, k) = 1 /\ incDone[k] = 1

\* _inflight_peek returns to do_GET
PeekReturns(t) == pc[t] = "peek_locked" /\ pc'[t] # "peek_locked"

\* C37: the inflight value a request logs is the one its _inflight_peek read: for an
\* admitted request, read before its own decrement, it is the number of requests in
\* Processing at that moment, itself included, so at least 1; for a rejected request,
\* which is not in Processing, it counts the other requests only.
C37_LoggedInflight ==
  [][\A t \in Threads : (Handling(t) /\ ~IsAdmin(t)) =>
       /\ PeekReturns(t) =>
            /\ infl'[t] = Cardinality(Processing)
            /\ Admitted(t) => (t \in Processing /\ infl'[t] >= 1
                                 /\ Count(trace[t], "infl_dec") = 0)
            /\ Denied(t) => (t \notin Processing /\ infl'[t] = Cardinality(Processing \ {t}))
       /\ LogReturns(t) =>
            /\ written'[Len(written')].inflight = infl[t]
            /\ Admitted(t) => (infl[t] >= 1 /\ infl[t] <= NumThreads
                                 /\ Count(trace[t], "infl_dec") = 0)
            /\ Denied(t) => infl[t] <= NumThreads - 1]_vars

\* A rejected request was logged with inflight 1, the admitted request that was in
\* Processing then; that request was later logged with inflight 1, itself.
C37_Witness ==
  /\ Len(written) = 2
  /\ written[1].status = 429 /\ written[1].inflight = 1
  /\ written[2].status # 429 /\ written[2].inflight = 1
  /\ \E t \in Threads : Denied(t) /\ pc[t] = "finish"

\* Thread t handles a request for /api/reset.
IsReset(t) == Handling(t) /\ req[t].target.path = "/api/reset"

\* C38: no step of the handling of /api/reset changes the log buffer, the log sequence
\* number, the inflight value or a limiter bucket; it can only empty the counter. A
\* request that was in Processing meanwhile still appends its log entry and decrements
\* inflight once, and inflight is 0 when all are done.
C38_ResetClearsOnlyCounter ==
  [][/\ \A t \in Threads :
          (IsReset(t) /\ StepOf(t)) =>
            /\ logs' = logs /\ written' = written /\ log_seq' = log_seq
            /\ inflight' = inflight
            /\ buckets' = buckets
            /\ counts' \in {counts, EmptyDict}
     /\ \A u \in Threads :
          (resetSeen /\ Admitted(u) /\ pc[u] = "finish")' =>
            (/\ Count(trace[u], "infl_dec") = 1
             /\ Cardinality(EntriesOf(u)) = (IF Failed(u) THEN 2 ELSE 1)
             /\ (AllDone => inflight = 0))']_vars

\* /api/reset has emptied the counter after a request in Processing had counted its
\* path and before that request answered.
C38_Witness ==
  \E t, u \in Threads :
    /\ t # u /\ IsReset(t) /\ pc[t] = "finish" /\ resetSeen
    /\ Admitted(u) /\ pc[u] = "respond" /\ Count(trace[u], "count") = 1
    /\ counts = EmptyDict /\ inflight = 1

\* The entries retained in a log buffer have pairwise distinct ids in ascending order.
AscendingIds(q) == \A i, j \in DOMAIN q : i < j => q[i].id < q[j].id

\* C39: with two servers built by make_server in one process, the entries retained in
\* each server's log buffer have pairwise distinct ids in ascending order, and every
\* one of them was written for a request of that server.
C39_ServersIndependent ==
  \A s \in ServerIds :
    /\ AscendingIds(ClassLogs(s))
    /\ \A i \in DOMAIN ClassLogs(s) : ClassLogs(s)[i].server = s

====
